---- MODULE Spec2Model ----
(***************************************************************************)
(* Resumable ingestion of parquet files into TiDB: the sync driver         *)
(* (cmd/sync/main.go), the per-file status store (internal/sync), the      *)
(* block and transaction loaders (internal/tidb/btc.go), the retry         *)
(* executor (internal/tidb/retry.go), the downloader                       *)
(* (internal/awsdata/download.go) and the batch sizes of the configuration *)
(* (internal/config/config.go).                                            *)
(*                                                                         *)
(* A parent row (block or transaction) is its row index 0..N-1 in the      *)
(* file; the child row <<r, i>> is input (or output) i of transaction r.   *)
(* Every transaction of a file has cfg.kin inputs and cfg.kout outputs.    *)
(*                                                                         *)
(* Spec is the driver on one file with kills and reruns, SpecLoader one    *)
(* loader call from any start cursor, SpecRun one run over several files,  *)
(* SpecStore the status store with SaveStatus taken step by step. In Spec, *)
(* SpecLoader and SpecRun a SaveStatus call is one step (its net effect on *)
(* the status file); the .tmp file, which nothing reads, is left out.      *)
(* SpecDownload is DownloadBTC for one date, run any number of times,      *)
(* SpecConfig the loading of the batch sizes, SpecCollect one call of      *)
(* collectTransactionData on transactions with arrays of any length.       *)
(* SpecLoaderFair is the loader call of SpecLoader that keeps running.     *)
(* SpecDir is one date's directory with its parquet files, status files    *)
(* and temporary files under the walk, the saves and a download.           *)
(***************************************************************************)
EXTENDS Integers, Naturals, Sequences, FiniteSets, TLC

\* ---------------------------------------------------------------- bounds
MaxRows == 3
MaxBatch == 2
MaxChildBatch == 2
MaxKids == 2
\* Child batch size of the files long enough to reach a periodic save.
LongChildBatch == 3
\* Rows a long file has beyond saveInterval chunks of one row.
LongExtraRows == 1

\* Files the walks of a run visit after the first one.
MaxLaterFiles == 2

\* The totals and cursors of the Status values given to the status store.
MaxTotal == 2
MaxCursor == 3

\* The dates of a run.
MaxDates == 2

\* The objects listed under the blocks and the transactions prefix.
MaxBlockObjects == 1
MaxTxObjects == 1

\* The batch sizes a config file or the environment sets.
MaxConfigured == 1

\* The transactions of a chunk given to collectTransactionData.
MaxChunk == 2

\* The parts of a file name.
MaxParts == 3

\* ------------------------------------------------------ program constants
maxRetries == 3
saveInterval == 10
DefaultTransactionBatchSize == 50
DefaultBlockBatchSize == 20
DefaultInputBatchSize == 50
DefaultOutputBatchSize == 50

\* --------------------------------------------------------------- values
NoErr == [op |-> "", attempts |-> 0, cause |-> "none"]
ZeroStatus == [NumRows |-> 0, LastRow |-> 0]
EmptyStore == [parent |-> {}, input |-> {}, output |-> {}]
\* A path with no file, and a file holding the whole JSON text of a Status.
NoFile == [exists |-> FALSE, whole |-> TRUE, NumRows |-> 0, LastRow |-> 0]
WholeFile(s) == [exists |-> TRUE, whole |-> TRUE, NumRows |-> s.NumRows, LastRow |-> s.LastRow]
\* A file created or truncated and not yet written to its end.
PartFile == [exists |-> TRUE, whole |-> FALSE, NumRows |-> 0, LastRow |-> 0]
StatusValues == [NumRows : 0..MaxTotal, LastRow : 0..MaxCursor]
\* What one call of the wrapped operation returns: nil, or an error value.
Outcomes == {"ok", "transient", "permanent"}
IdleRetry == [op |-> "", attempt |-> 1, results |-> <<>>, waits |-> <<>>,
              lastErr |-> "none", state |-> "idle"]

Min(a, b) == IF a < b THEN a ELSE b
Range(s) == {s[i] : i \in DOMAIN s}

\* -------------------------------------------------------------- files
BlockFile(N, B) ==
    [kind |-> "block", N |-> N, B |-> B, Bi |-> 1, Bo |-> 1, kin |-> 0, kout |-> 0]
SmallConfigs ==
    {BlockFile(N, B) : N \in 1..MaxRows, B \in 1..MaxBatch}
    \cup [kind : {"tx"}, N : 1..MaxRows, B : 1..MaxBatch,
          Bi : 1..MaxChildBatch, Bo : 1..MaxChildBatch,
          kin : 0..MaxKids, kout : 0..MaxKids]
\* Files of one-row chunks that reach the saveInterval-th callback.
LongConfigs ==
    {BlockFile(N, 1) : N \in (saveInterval - 1)..(saveInterval + LongExtraRows)}
    \cup [kind : {"tx"}, N : (saveInterval - 1)..(saveInterval + LongExtraRows),
          B : {1}, Bi : {LongChildBatch}, Bo : {LongChildBatch},
          kin : {1}, kout : {0, 1}]
\* One transaction with more children than a child batch holds.
WideConfigs ==
    [kind : {"tx"}, N : {1}, B : 1..MaxBatch, Bi : {MaxChildBatch},
     Bo : 1..MaxChildBatch, kin : {MaxKids + 1}, kout : {MaxKids + 1}]
\* The scenario of the documentation: 250 rows, batches of 100.
ScenarioConfigs ==
    {BlockFile(250, 100),
     [kind |-> "tx", N |-> 250, B |-> 100, Bi |-> 100, Bo |-> 100, kin |-> 1, kout |-> 1]}
\* The files of a run over several files: the batch sizes are those of the
\* run's configuration, the same for every file; as many inputs as outputs.
RunConfigs ==
    {c \in SmallConfigs :
        /\ c.kin = c.kout
        /\ c.N <= MaxBatch
        /\ c.B = MaxBatch
        /\ c.kind = "tx" => c.Bi = MaxChildBatch /\ c.Bo = MaxChildBatch}
IsScenario(c) == c.N = 250
StartRows(c) ==
    IF IsScenario(c) THEN {0, 100}
    ELSE IF c.N >= saveInterval - 1 THEN {0, saveInterval}  \cap (0..(c.N - 1))
    ELSE 0..(c.N - 1)

AllParents(c) == 0..(c.N - 1)
ChildrenOf(rows, k) == {<<r, i>> : r \in rows, i \in 0..(k - 1)}
FullStore(c) ==
    [parent |-> AllParents(c),
     input |-> ChildrenOf(AllParents(c), c.kin),
     output |-> ChildrenOf(AllParents(c), c.kout)]
\* The store a complete earlier load of rows 0..S-1 leaves behind.
PriorStore(c, S) ==
    [parent |-> 0..(S - 1),
     input |-> ChildrenOf(0..(S - 1), c.kin),
     output |-> ChildrenOf(0..(S - 1), c.kout)]

VARIABLES
    cfg,            \* the source file and the configured batch sizes
    status,         \* the persisted status file: [exists, whole, NumRows, LastRow]
    store,          \* the tables: [parent, input, output], sets of keys
    pc,             \* where the process is
    fileStatus,     \* driver: the in-memory Status of the file
    batchCount,     \* driver: callbacks counted by onProgress
    startRow,       \* driver/loader: the start cursor
    pos,            \* reader: index of the next row to read
    n,              \* loader: rows returned by the last Read
    eof,            \* loader: the last Read returned io.EOF
    pending,        \* loader: pendingBlocks / pendingTxs
    pendingInputs,  \* loader: pendingInputs
    pendingOutputs, \* loader: pendingOutputs
    totalRows,      \* loader: totalRows
    numRows,        \* loader: numRows
    stmts,          \* loader: the prepared statements that are open
    retry,          \* the retry executor's frame: of the running invocation,
                    \* and of a finished one until the loader's next step
    err,            \* the error the loader returned (NoErr: nil)
    cbLog,          \* history: the callbacks of this invocation
    wlog,           \* history: the successful writes of this invocation
    rlog,           \* history: the reader calls of this invocation
    fullAtStart,    \* history: the tables held the whole file when this
                    \* invocation opened it (an earlier load was complete)
    saveLog,        \* history: the SaveStatus calls of this run of the driver
    onProgress,     \* loader: the callback it was given ("driver" or "nil")
    filesLeft,      \* driver: the files of the walk after the current one
    dirExists,      \* file system: the directory of the status file exists
    tmpFile,        \* file system: the file at statusPath + ".tmp"
    handles,        \* loader: the source file and the reader that are open
    at,             \* driver: the walk's position: [date, kind, idx]
    visited,        \* history: the positions whose file the run has visited
    remote,         \* download: the listing of the S3 prefix
    localFiles,     \* download: the files of the local directory
    dlTmp,          \* download: downloadFile's temporary file, and those left behind
    dlIdx,          \* download: the index in the listing of the object at hand
    dryRun,         \* download: cfg.DryRun
    fetched,        \* history: the objects this run has fetched
    localAtStart,   \* history: the local files when this run started
    lastRun,        \* history: how the download before this one ended
    confIn,         \* config: what the file and the environment set
    conf,           \* config: the batch sizes of the loaded Config
    dirFiles,       \* file system: the files of a date's directory
    picked          \* history: the paths the walk of that directory selected

persist == <<cfg, status, store>>
driver == <<fileStatus, batchCount, startRow>>
buffers == <<pending, pendingInputs, pendingOutputs>>
reader == <<pos, n, eof>>
hist == <<cbLog, wlog, rlog, fullAtStart, saveLog>>
walked == <<at, visited, dirFiles, picked>>
download == <<remote, localFiles, dlTmp, dlIdx, dryRun, fetched, localAtStart, lastRun>>
config == <<confIn, conf>>
\* What no step of a loader changes.
fixed == <<onProgress, filesLeft, dirExists, tmpFile, walked, download, config>>
vars == <<cfg, status, store, pc, fileStatus, batchCount, startRow, pos, n, eof,
          pending, pendingInputs, pendingOutputs, totalRows, numRows, stmts,
          retry, err, cbLog, wlog, rlog, fullAtStart, saveLog, onProgress,
          filesLeft, dirExists, tmpFile, handles, at, visited, remote, localFiles,
          dlTmp, dlIdx, dryRun, fetched, localAtStart, lastRun, confIn, conf,
          dirFiles, picked>>

\* ------------------------------------------------------- status store
\* IsComplete without the test of the total.
IsCompleteNoTotal(s) == s.LastRow >= s.NumRows

\* Status.IsComplete
IsComplete(s) == s.NumRows > 0 /\ s.LastRow >= s.NumRows

\* LoadStatus without the os.IsNotExist case: a missing file is an error.
LoadStatusNoDefault(st, readOk) ==
    IF ~st.exists THEN [status |-> ZeroStatus, ok |-> FALSE]
    ELSE IF readOk /\ st.whole
    THEN [status |-> [NumRows |-> st.NumRows, LastRow |-> st.LastRow], ok |-> TRUE]
    ELSE [status |-> ZeroStatus, ok |-> FALSE]

\* LoadStatus: the status read, or the error of a failed read or of the
\* parse of a text that is not whole.
LoadStatus(st, readOk) ==
    IF ~st.exists THEN [status |-> ZeroStatus, ok |-> TRUE]
    ELSE IF readOk /\ st.whole
    THEN [status |-> [NumRows |-> st.NumRows, LastRow |-> st.LastRow], ok |-> TRUE]
    ELSE [status |-> ZeroStatus, ok |-> FALSE]

\* SaveStatus: the status file after the call (written whole by the rename,
\* or left as it was when a step of the save fails).
SaveStatus(st, s, saveOk) ==
    IF saveOk THEN WholeFile(s) ELSE st

\* ------------------------------------------------------ retry executor
\* The frame of retryWithBackoff / retryWithBackoffNoReturn on entry.
RetryBegin(op) ==
    [op |-> op, attempt |-> 1, results |-> <<>>, waits |-> <<>>,
     lastErr |-> "none", state |-> "running"]

\* RetryCall with the loop bound off by one (attempt <= maxRetries + 1).
RetryCallOffByOne(r, res) ==
    LET called == [r EXCEPT !.results = Append(@, res)] IN
    IF res = "ok" THEN [called EXCEPT !.lastErr = "none", !.state = "ok"]
    ELSE IF r.attempt < maxRetries + 1
    THEN [called EXCEPT !.lastErr = res, !.waits = Append(@, r.attempt),
                        !.attempt = @ + 1]
    ELSE [called EXCEPT !.lastErr = res, !.attempt = @ + 1, !.state = "failed"]

\* RetryCall sleeping retryDelay, not retryDelay * attempt.
RetryCallFlatDelay(r, res) ==
    LET called == [r EXCEPT !.results = Append(@, res)] IN
    IF res = "ok" THEN [called EXCEPT !.lastErr = "none", !.state = "ok"]
    ELSE IF r.attempt < maxRetries
    THEN [called EXCEPT !.lastErr = res, !.waits = Append(@, 1), !.attempt = @ + 1]
    ELSE [called EXCEPT !.lastErr = res, !.attempt = @ + 1, !.state = "failed"]

\* One iteration of the retry loop, in which fn() returned `res`: return at
\* the first nil; otherwise sleep retryDelay * attempt when an attempt is
\* left (waits records the multiplier), and fail after maxRetries.
RetryCall(r, res) ==
    LET called == [r EXCEPT !.results = Append(@, res)] IN
    IF res = "ok" THEN [called EXCEPT !.lastErr = "none", !.state = "ok"]
    ELSE IF r.attempt < maxRetries
    THEN [called EXCEPT !.lastErr = res, !.waits = Append(@, r.attempt),
                        !.attempt = @ + 1]
    ELSE [called EXCEPT !.lastErr = res, !.attempt = @ + 1, !.state = "failed"]

\* "%s failed after %d attempts: %w"
WrapErr(r) == [op |-> r.op, attempts |-> maxRetries, cause |-> r.lastErr]

\* ---------------------------------------------------------------- store
\* A plain INSERT: a row whose key is present fails the statement.
InsertStrict(table, rows) ==
    IF rows \cap table # {} THEN [tbl |-> table, res |-> "duplicate"]
    ELSE [tbl |-> table \cup rows, res |-> "ok"]

\* INSERT IGNORE INTO <table> ... VALUES rows: rows whose key is present
\* are skipped without an error.
InsertIgnore(table, rows) == [tbl |-> table \cup rows, res |-> "ok"]

\* One execution of an insert statement: the store fails it (`o` an error
\* value) or executes it.
ExecInsert(table, rows, o) ==
    IF o # "ok" THEN [tbl |-> table, res |-> o] ELSE InsertIgnore(table, rows)

\* --------------------------------------------------------------- reader
\* A seek that lands one row late, and a seek that does not move.
SeekPastRow(p, row) == row + 1
SeekStay(p, row) == p

\* reader.SeekToRow(row): the reader's position afterwards.
SeekToRow(p, row) == row

\* reader.Read(buf[:want]) at position p of a file of N rows: rows returned.
ReadCount(p, want, N) == Min(want, N - p)

\* Whether that Read may return io.EOF: always with no row, never before the
\* last row, and either way together with the last rows.
EofChoices(p, k, N) ==
    IF k = 0 THEN {TRUE} ELSE IF p + k = N THEN {TRUE, FALSE} ELSE {FALSE}

RowSeq(p, k) == [i \in 1..k |-> p + i - 1]

\* ------------------------------------------------------------- loaders
\* collectTransactionData: the child rows of txs, each transaction's k
\* children in array order with their 0-based index.
CollectChildren(txs, k) ==
    [j \in 1..(Len(txs) * k) |-> <<txs[((j - 1) \div k) + 1], (j - 1) % k>>]

\* totalRows = k: the count forgets the rows of the earlier chunks.
AdvanceRowsReset(total, k) == k

\* totalRows += k
AdvanceRows(total, k) == total + k

\* The statements a loader prepares, in order, and their retry labels.
NeededStmts(kind) == IF kind = "block" THEN {"parent"} ELSE {"parent", "input", "output"}
NextStmt(open) ==
    IF "parent" \notin open THEN "parent"
    ELSE IF "input" \notin open THEN "input" ELSE "output"
PrepareLabel(kind, k) ==
    IF kind = "block" THEN "prepare block statement"
    ELSE IF k = "parent" THEN "prepare transaction statement"
    ELSE IF k = "input" THEN "prepare input statement"
    ELSE "prepare output statement"

\* FlushPc flushing a buffer only when it holds more than a batch.
FlushPcStrict(pi, po) ==
    IF Len(pi) > cfg.Bi THEN "batchInput"
    ELSE IF Len(po) > cfg.Bo THEN "batchOutput"
    ELSE "progress"

\* Transaction loader: what follows the parent batch of a chunk: the input
\* flush loop, then the output flush loop, then the progress report.
FlushPc(pi, po) ==
    IF Len(pi) >= cfg.Bi THEN "batchInput"
    ELSE IF Len(po) >= cfg.Bo THEN "batchOutput"
    ELSE "progress"

\* What follows the read loop: the direct writes of what remains.
BlockRemPc(p) == IF Len(p) > 0 THEN "directParent" ELSE "return"
TxRemPc(p, pi, po) ==
    IF Len(p) > 0 THEN "directParent"
    ELSE IF Len(pi) > 0 THEN "directInput"
    ELSE IF Len(po) > 0 THEN "directOutput"
    ELSE "finalProgress"
\* A remainder step that writes the outputs whatever the buffers hold.
ChildRemPcUnguarded(pi, po) == "directOutput"

\* The direct writes of the children after that of the parents: each only
\* for a buffer that holds rows.
ChildRemPc(pi, po) ==
    IF Len(pi) > 0 THEN "directInput"
    ELSE IF Len(po) > 0 THEN "directOutput"
    ELSE "finalProgress"

\* A flush that empties the buffer.
RetainNone(buf, size) == <<>>

\* pendingInputs = pendingInputs[inputBatchSize:], the rows that stay in
\* the buffer after a flush.
Retain(buf, size) == SubSeq(buf, size + 1, Len(buf))

\* A flush that hands the whole buffer to the prepared statement.
StmtBatchAll(buf, size) == buf

\* batch := pending[:batchSize], the argument of batchInsertWithStmt
StmtBatch(buf, size) == SubSeq(buf, 1, size)

\* A loop without its break.
LoopEndsNever(k, e) == FALSE

\* The block loop leaves on a short read or EOF; the tx loop leaves after
\* the progress report of such a read.
LoopEnds(k, e) == k < cfg.B \/ e

\* The frame the next call of the wrapped operation runs in: the running
\* invocation's, or a new invocation's.
Frame(op) == IF retry.state = "running" THEN retry ELSE RetryBegin(op)

\* ------------------------------------------------------------ callback
\* A closure that saves on every (saveInterval + 1)-th call.
OnProgressLate(row, total) ==
    IF onProgress = "nil"
    THEN UNCHANGED <<fileStatus, batchCount, cbLog, status, saveLog>>
    ELSE /\ fileStatus' = [NumRows |-> total, LastRow |-> row]
         /\ batchCount' = batchCount + 1
         /\ cbLog' = Append(cbLog, [row |-> row, numRows |-> total])
         /\ IF (batchCount + 1) % (saveInterval + 1) = 0
            THEN \E saveOk \in BOOLEAN :
                   /\ status' = SaveStatus(status, [NumRows |-> total, LastRow |-> row],
                                           saveOk)
                   /\ saveLog' = Append(saveLog, [at |-> "callback", count |-> batchCount + 1,
                                                  cursor |-> row, ok |-> saveOk])
            ELSE status' = status /\ saveLog' = saveLog

\* The driver's onProgress closure and the loader's call of it: the
\* in-memory status takes the reported cursor, and every saveInterval-th
\* call saves it (an error of the save is returned, logged by the loader
\* and dropped).
OnProgress(row, total) ==
    IF onProgress = "nil"
    THEN UNCHANGED <<fileStatus, batchCount, cbLog, status, saveLog>>
    ELSE /\ fileStatus' = [NumRows |-> total, LastRow |-> row]
         /\ batchCount' = batchCount + 1
         /\ cbLog' = Append(cbLog, [row |-> row, numRows |-> total])
         /\ IF (batchCount + 1) % saveInterval = 0
            THEN \E saveOk \in BOOLEAN :
                   /\ status' = SaveStatus(status, [NumRows |-> total, LastRow |-> row],
                                           saveOk)
                   /\ saveLog' = Append(saveLog, [at |-> "callback", count |-> batchCount + 1,
                                                  cursor |-> row, ok |-> saveOk])
            ELSE status' = status /\ saveLog' = saveLog

\* The callback called in this step returned an error (that of its save).
CallbackFailed == saveLog' # saveLog /\ ~saveLog'[Len(saveLog')].ok

\* A loader that returns when the callback fails.
AfterCallbackAbort(failed, next) == IF failed THEN "return" ELSE next

\* What the loader does with the callback's result: an error is printed as
\* a warning, and the loader goes on to `next` either way.
AfterCallback(failed, next) == next

\* ------------------------------------------------------------- process
Saving == {"saveMkdir", "saveCreate", "saveWrite", "saveRename"}
Running == {"load", "open", "prepare", "read", "batchParent", "batchInput",
            "batchOutput", "progress", "directParent", "directInput",
            "directOutput", "finalProgress", "return", "returned"} \cup Saving
Ended == {"idle", "done", "skipped", "exited"}

NoListing == dirFiles = {} /\ picked = <<>>
NoWalk == at = [date |-> 1, kind |-> "block", idx |-> 1] /\ visited = <<>> /\ NoListing

\* The temporary files of a directory tree: the one of the running
\* downloadFile (cur: none, or being written, or whole) and the targets of
\* those that earlier calls left behind.
NoTmp == [cur |-> "none", left |-> {}]
LeftBehind(tmp, dir, name) ==
    [cur |-> "none", left |-> tmp.left \cup {[dir |-> dir, name |-> name]}]

NoDownload ==
    /\ remote = <<>>
    /\ localFiles = {}
    /\ dlTmp = NoTmp
    /\ dlIdx = 0
    /\ dryRun = FALSE
    /\ fetched = <<>>
    /\ localAtStart = {}
    /\ lastRun = "none"

NoConfig == confIn = <<>> /\ conf = <<>>

FreshMemory ==
    /\ fileStatus' = ZeroStatus
    /\ batchCount' = 0
    /\ startRow' = 0
    /\ pos' = 0
    /\ n' = 0
    /\ eof' = FALSE
    /\ pending' = <<>>
    /\ pendingInputs' = <<>>
    /\ pendingOutputs' = <<>>
    /\ totalRows' = 0
    /\ numRows' = 0
    /\ stmts' = {}
    /\ handles' = {}
    /\ retry' = IdleRetry
    /\ err' = NoErr
    /\ cbLog' = <<>>
    /\ wlog' = <<>>
    /\ rlog' = <<>>
    /\ fullAtStart' = FALSE
    /\ saveLog' = <<>>

\* The sync command is started (again) on the file's date.
SyncStart ==
    /\ pc \in Ended
    /\ pc' = "load"
    /\ FreshMemory
    /\ UNCHANGED <<persist, fixed>>

\* The process is killed.
Crash ==
    /\ pc \in Running
    /\ pc' = "idle"
    /\ FreshMemory
    /\ UNCHANGED <<persist, fixed>>

\* A driver that starts every load at row 0.
StartRowZero(s) == 0

\* startRow := fileStatus.LastRow
StartRowOf(s) == s.LastRow

\* A driver that gives up when the status cannot be loaded.
LoadedPcStrict(ok, complete) ==
    IF ~ok THEN "exited" ELSE IF complete THEN "skipped" ELSE "open"

\* Where the walk callback goes after LoadStatus: a load error is printed
\* as a warning; a complete file is skipped, any other is loaded.
LoadedPc(ok, complete) == IF complete THEN "skipped" ELSE "open"

\* main, the walk callback up to the loader call: load the status, skip a
\* complete file, else resume from its cursor.
DriverLoadStatus ==
    /\ pc = "load"
    /\ \E readOk \in BOOLEAN :
        LET r == LoadStatus(status, readOk) IN
        /\ fileStatus' = r.status
        /\ pc' = LoadedPc(r.ok, IsComplete(r.status))
        /\ startRow' = IF pc' = "open" THEN StartRowOf(r.status) ELSE startRow
    /\ batchCount' = 0
    /\ retry' = IdleRetry
    /\ UNCHANGED <<persist, reader, buffers, totalRows, numRows, stmts, err, hist,
                   fixed, handles>>

\* A loader that goes on to its statements after a failed seek.
AfterSeekErrorGoOn == "prepare"

\* if err := reader.SeekToRow(startRow); err != nil { return ... }
AfterSeekError == "return"

\* How the opening of the source goes: "open" is os.Open failing, "stat"
\* file.Stat failing, "parquet" parquet.OpenFile failing.
OpenOutcomes == {"ok", "open", "stat", "parquet"}

\* What is open after the opening: nothing when os.Open failed, the file
\* alone when a later step failed, the file and the reader otherwise.
OpenedHandles(opened) ==
    CASE opened = "ok" -> {"file", "reader"}
      [] opened = "open" -> {}
      [] OTHER -> {"file"}

\* insert*FromFile up to the statements: open the file, take its row count,
\* seek to startRow when resuming (a failed seek returns at once).
LoaderOpen ==
    /\ pc = "open"
    /\ fullAtStart' = (store = FullStore(cfg))
    /\ \E opened \in OpenOutcomes :
         /\ handles' = OpenedHandles(opened)
         /\ IF opened # "ok"
            THEN /\ pc' = "return"
                 /\ err' = [op |-> "open", attempts |-> 1, cause |-> "io"]
                 /\ UNCHANGED <<numRows, pos, rlog>>
            ELSE /\ numRows' = cfg.N
                 /\ IF startRow > 0
                    THEN \E seekOk \in BOOLEAN :
                      /\ rlog' = Append(rlog, [op |-> "seek", at |-> startRow, n |-> 0])
                      /\ IF seekOk
                         THEN /\ pos' = SeekToRow(pos, startRow)
                              /\ pc' = "prepare"
                              /\ err' = err
                         ELSE /\ pos' = pos
                              /\ pc' = AfterSeekError
                              /\ err' = [op |-> "seek", attempts |-> 1, cause |-> "io"]
                    ELSE pos' = 0 /\ pc' = "prepare" /\ err' = err /\ rlog' = rlog
    /\ retry' = IdleRetry
    /\ UNCHANGED <<persist, driver, n, eof, buffers, totalRows, stmts, cbLog, wlog,
                   saveLog, fixed>>

\* A return that leaves what the function opened open.
DeferredCloseNone(open) == open

\* The deferred Close calls, run at every return of the function: each is
\* registered right after the open that it closes has succeeded.
DeferredClose(open) == {}

\* db.Prepare of the next statement through retryWithBackoff; after the
\* last one the buffers and totalRows are set up and the read loop starts.
Prepare ==
    /\ pc = "prepare"
    /\ \E o \in Outcomes :
        LET k == NextStmt(stmts)
            f == RetryCall(Frame(PrepareLabel(cfg.kind, k)), o)
        IN
        /\ retry' = f
        /\ IF f.state = "ok"
           THEN /\ stmts' = stmts \cup {k}
                /\ pc' = IF stmts \cup {k} = NeededStmts(cfg.kind) THEN "read" ELSE "prepare"
                /\ err' = err
           ELSE IF f.state = "failed"
           THEN stmts' = stmts /\ pc' = "return" /\ err' = WrapErr(f)
           ELSE stmts' = stmts /\ pc' = pc /\ err' = err
    /\ totalRows' = IF pc' = "read" THEN startRow ELSE totalRows
    /\ UNCHANGED <<persist, driver, reader, buffers, numRows, hist, fixed, handles>>

\* reader.Read of up to batchSize rows at the head of the loop. The block
\* loader leaves the loop on a short read or EOF before any write; the
\* transaction loader collects the children and writes the parents only of
\* a full chunk.
Read ==
    /\ pc = "read"
    /\ \E readOk \in BOOLEAN :
        LET k == ReadCount(pos, cfg.B, cfg.N) IN
        IF ~readOk
        THEN /\ pc' = "return"
             /\ err' = [op |-> "read", attempts |-> 1, cause |-> "io"]
             /\ UNCHANGED <<reader, buffers, rlog>>
        ELSE \E e \in EofChoices(pos, k, cfg.N) :
             LET rows == RowSeq(pos, k)
                 pi == pendingInputs \o CollectChildren(rows, cfg.kin)
                 po == pendingOutputs \o CollectChildren(rows, cfg.kout)
             IN
             /\ n' = k
             /\ eof' = e
             /\ pos' = pos + k
             /\ rlog' = Append(rlog, [op |-> "read", at |-> pos, n |-> k])
             /\ pending' = rows
             /\ err' = err
             /\ IF cfg.kind = "block"
                THEN /\ UNCHANGED <<pendingInputs, pendingOutputs>>
                     /\ pc' = IF LoopEnds(k, e) THEN BlockRemPc(rows) ELSE "batchParent"
                ELSE /\ pendingInputs' = pi
                     /\ pendingOutputs' = po
                     /\ pc' = IF Len(rows) = cfg.B THEN "batchParent" ELSE FlushPc(pi, po)
    /\ retry' = IdleRetry
    /\ UNCHANGED <<persist, driver, totalRows, numRows, stmts, cbLog, wlog,
                   fullAtStart, saveLog, fixed, handles>>

\* The outcome of one write attempt `x` (an ExecInsert result) under the
\* retry executor: a failed invocation makes the loader return the error.
WriteAttempt(label, x) ==
    LET f == RetryCall(Frame(label), x.res) IN
    /\ retry' = f
    /\ err' = IF f.state = "failed" THEN WrapErr(f) ELSE err

\* batchInsertWithStmt of a full chunk of parents. The block loader counts
\* the rows at once; the transaction loader goes on to the flush loops.
BatchParent ==
    /\ pc = "batchParent"
    /\ \E o \in Outcomes :
        LET batch == StmtBatch(pending, cfg.B)
            x == ExecInsert(store.parent, Range(batch), o)
        IN
        /\ WriteAttempt("batch insert", x)
        /\ store' = [store EXCEPT !.parent = x.tbl]
        /\ IF retry'.state = "ok"
           THEN /\ wlog' = Append(wlog, [kind |-> "parent", path |-> "stmt", rows |-> batch])
                /\ IF cfg.kind = "block"
                   THEN totalRows' = AdvanceRows(totalRows, Len(batch)) /\ pc' = "progress"
                   ELSE totalRows' = totalRows /\ pc' = FlushPc(pendingInputs, pendingOutputs)
           ELSE /\ UNCHANGED <<wlog, totalRows>>
                /\ pc' = IF retry'.state = "failed" THEN "return" ELSE pc
    /\ UNCHANGED <<cfg, status, driver, reader, buffers, numRows, stmts, cbLog, rlog,
                   fullAtStart, saveLog, fixed, handles>>

\* One round of the input flush loop: the first inputBatchSize pending
\* inputs are sliced off and written with the prepared statement.
BatchInput ==
    /\ pc = "batchInput"
    /\ \E o \in Outcomes :
        LET batch == StmtBatch(pendingInputs, cfg.Bi)
            rest == Retain(pendingInputs, cfg.Bi)
            x == ExecInsert(store.input, Range(batch), o)
        IN
        /\ WriteAttempt("batch insert", x)
        /\ store' = [store EXCEPT !.input = x.tbl]
        /\ IF retry'.state = "ok"
           THEN /\ wlog' = Append(wlog, [kind |-> "input", path |-> "stmt", rows |-> batch])
                /\ pendingInputs' = rest
                /\ pc' = FlushPc(rest, pendingOutputs)
           ELSE /\ UNCHANGED <<wlog, pendingInputs>>
                /\ pc' = IF retry'.state = "failed" THEN "return" ELSE pc
    /\ UNCHANGED <<cfg, status, driver, reader, pending, pendingOutputs, totalRows,
                   numRows, stmts, cbLog, rlog,
                   fullAtStart, saveLog, fixed, handles>>

\* One round of the output flush loop.
BatchOutput ==
    /\ pc = "batchOutput"
    /\ \E o \in Outcomes :
        LET batch == StmtBatch(pendingOutputs, cfg.Bo)
            rest == Retain(pendingOutputs, cfg.Bo)
            x == ExecInsert(store.output, Range(batch), o)
        IN
        /\ WriteAttempt("batch insert", x)
        /\ store' = [store EXCEPT !.output = x.tbl]
        /\ IF retry'.state = "ok"
           THEN /\ wlog' = Append(wlog, [kind |-> "output", path |-> "stmt", rows |-> batch])
                /\ pendingOutputs' = rest
                /\ pc' = FlushPc(pendingInputs, rest)
           ELSE /\ UNCHANGED <<wlog, pendingOutputs>>
                /\ pc' = IF retry'.state = "failed" THEN "return" ELSE pc
    /\ UNCHANGED <<cfg, status, driver, reader, pending, pendingInputs, totalRows,
                   numRows, stmts, cbLog, rlog,
                   fullAtStart, saveLog, fixed, handles>>

\* The progress report that ends a round of the loop. The transaction
\* loader counts the n rows of the chunk here, written or not, and leaves
\* the loop afterwards on a short read or EOF.
Progress ==
    /\ pc = "progress"
    /\ totalRows' = IF cfg.kind = "block" THEN totalRows ELSE AdvanceRows(totalRows, n)
    /\ OnProgress(totalRows', numRows)
    /\ pc' = AfterCallback(CallbackFailed,
                           IF cfg.kind = "block" THEN "read"
                           ELSE IF LoopEnds(n, eof)
                           THEN TxRemPc(pending, pendingInputs, pendingOutputs)
                           ELSE "read")
    /\ retry' = IdleRetry
    /\ UNCHANGED <<cfg, store, startRow, reader, buffers, numRows, stmts, err,
                   wlog, rlog, fullAtStart, fixed, handles>>

\* directInsert of the parents left in the buffer after the loop.
DirectParent ==
    /\ pc = "directParent"
    /\ \E o \in Outcomes :
        LET x == ExecInsert(store.parent, Range(pending), o) IN
        /\ WriteAttempt("direct insert", x)
        /\ store' = [store EXCEPT !.parent = x.tbl]
        /\ IF retry'.state = "ok"
           THEN /\ wlog' = Append(wlog, [kind |-> "parent", path |-> "direct", rows |-> pending])
                /\ totalRows' = AdvanceRows(totalRows, Len(pending))
                /\ pc' = IF cfg.kind = "block" THEN "finalProgress"
                         ELSE ChildRemPc(pendingInputs, pendingOutputs)
           ELSE /\ UNCHANGED <<wlog, totalRows>>
                /\ pc' = IF retry'.state = "failed" THEN "return" ELSE pc
    /\ UNCHANGED <<cfg, status, driver, reader, buffers, numRows, stmts, cbLog, rlog,
                   fullAtStart, saveLog, fixed, handles>>

\* directInsert of the inputs left in the buffer.
DirectInput ==
    /\ pc = "directInput"
    /\ \E o \in Outcomes :
        LET x == ExecInsert(store.input, Range(pendingInputs), o) IN
        /\ WriteAttempt("direct insert", x)
        /\ store' = [store EXCEPT !.input = x.tbl]
        /\ IF retry'.state = "ok"
           THEN /\ wlog' = Append(wlog, [kind |-> "input", path |-> "direct",
                                         rows |-> pendingInputs])
                /\ pc' = ChildRemPc(<<>>, pendingOutputs)
           ELSE /\ UNCHANGED wlog
                /\ pc' = IF retry'.state = "failed" THEN "return" ELSE pc
    /\ UNCHANGED <<cfg, status, driver, reader, buffers, totalRows, numRows, stmts,
                   cbLog, rlog, fullAtStart, saveLog, fixed, handles>>

\* directInsert of the outputs left in the buffer.
DirectOutput ==
    /\ pc = "directOutput"
    /\ \E o \in Outcomes :
        LET x == ExecInsert(store.output, Range(pendingOutputs), o) IN
        /\ WriteAttempt("direct insert", x)
        /\ store' = [store EXCEPT !.output = x.tbl]
        /\ IF retry'.state = "ok"
           THEN /\ wlog' = Append(wlog, [kind |-> "output", path |-> "direct",
                                         rows |-> pendingOutputs])
                /\ pc' = "finalProgress"
           ELSE /\ UNCHANGED wlog
                /\ pc' = IF retry'.state = "failed" THEN "return" ELSE pc
    /\ UNCHANGED <<cfg, status, driver, reader, buffers, totalRows, numRows, stmts,
                   cbLog, rlog, fullAtStart, saveLog, fixed, handles>>

\* The progress report after the remainder: the block loader's follows its
\* direct write, the transaction loader's is unconditional.
FinalProgress ==
    /\ pc = "finalProgress"
    /\ OnProgress(totalRows, numRows)
    /\ pc' = AfterCallback(CallbackFailed, "return")
    /\ retry' = IdleRetry
    /\ UNCHANGED <<cfg, store, startRow, reader, buffers, totalRows, numRows, stmts,
                   err, wlog, rlog, fullAtStart, fixed, handles>>

\* The loader returns: its deferred Close calls run.
LoaderReturn ==
    /\ pc = "return"
    /\ stmts' = DeferredClose(stmts)
    /\ handles' = DeferredClose(handles)
    /\ pc' = "returned"
    /\ retry' = IdleRetry
    /\ UNCHANGED <<persist, driver, reader, buffers, totalRows, numRows, err, hist,
                   fixed>>

\* main after the loader call: an error ends the walk and the process
\* (os.Exit(1)) without a save; success is followed by the final save,
\* whose failure is only logged.
DriverFinish ==
    /\ pc = "returned"
    /\ onProgress = "driver"
    /\ IF err # NoErr
       THEN pc' = "exited" /\ status' = status /\ saveLog' = saveLog
       ELSE /\ pc' = "done"
            /\ \E saveOk \in BOOLEAN :
                 /\ status' = SaveStatus(status, fileStatus, saveOk)
                 /\ saveLog' = Append(saveLog, [at |-> "final", count |-> batchCount,
                                                cursor |-> fileStatus.LastRow, ok |-> saveOk])
    /\ retry' = IdleRetry
    /\ UNCHANGED <<cfg, store, driver, reader, buffers, totalRows, numRows, stmts,
                   err, cbLog, wlog, rlog, fullAtStart, fixed, handles>>

\* ------------------------------------------------- SaveStatus, by steps
\* What no step of SaveStatus changes.
loading == <<cfg, store, batchCount, startRow, reader, buffers, totalRows, numRows,
             stmts, retry, err, hist, onProgress, filesLeft, handles, walked,
             download, config>>

\* A caller that holds a Status (the driver, between the status load and
\* the end of the file) calls SaveStatus with it, whatever its contents.
SaveStatusBegin ==
    /\ pc = "open"
    /\ fileStatus' \in StatusValues
    /\ pc' = "saveMkdir"
    /\ UNCHANGED <<status, dirExists, tmpFile, loading>>

\* os.MkdirAll(dir): nil when the directory exists, else it is created or
\* the error is returned.
SaveMkdirAll ==
    /\ pc = "saveMkdir"
    /\ \E ok \in BOOLEAN :
          IF dirExists \/ ok
          THEN dirExists' = TRUE /\ pc' = "saveCreate"
          ELSE dirExists' = dirExists /\ pc' = "open"
    /\ UNCHANGED <<status, fileStatus, tmpFile, loading>>

\* os.WriteFile in place: the status file itself is truncated.
SaveCreateInPlace ==
    /\ pc = "saveCreate"
    /\ status' = PartFile
    /\ pc' = "saveWrite"
    /\ UNCHANGED <<fileStatus, dirExists, tmpFile, loading>>

\* os.WriteFile(tmpPath, ...), its open: the temporary file is created or
\* truncated, or the error is returned.
SaveCreateTmp ==
    /\ pc = "saveCreate"
    /\ \E ok \in BOOLEAN :
          IF ok THEN tmpFile' = PartFile /\ pc' = "saveWrite"
          ELSE tmpFile' = tmpFile /\ pc' = "open"
    /\ UNCHANGED <<status, fileStatus, dirExists, loading>>

\* os.WriteFile(tmpPath, ...), its write and close: the temporary file
\* holds the whole text, or the error is returned and it stays partial.
SaveWriteTmp ==
    /\ pc = "saveWrite"
    /\ \E ok \in BOOLEAN :
          IF ok THEN tmpFile' = WholeFile(fileStatus) /\ pc' = "saveRename"
          ELSE tmpFile' = tmpFile /\ pc' = "open"
    /\ UNCHANGED <<status, fileStatus, dirExists, loading>>

\* os.Rename(tmpPath, statusPath): the status file becomes the temporary
\* file in one step, or the error is returned and both stay.
SaveRename ==
    /\ pc = "saveRename"
    /\ \E ok \in BOOLEAN :
          IF ok THEN status' = tmpFile /\ tmpFile' = NoFile
          ELSE status' = status /\ tmpFile' = tmpFile
    /\ pc' = "open"
    /\ UNCHANGED <<fileStatus, dirExists, loading>>

\* The positions of a walk: the date's rank in dates, the directory walked
\* ("block" for btc/blocks/<date>, "tx" for btc/transactions/<date>) and
\* the file's rank in the lexical order of filepath.Walk.
Kinds == {"block", "tx"}
FirstPositions == [date : 1..MaxDates, kind : Kinds, idx : {1}]

\* A driver that walks a date's transactions before its blocks.
WalkNextTxFirst(p) ==
    {[p EXCEPT !.idx = p.idx + 1]}
        \cup {q \in FirstPositions : q.date = p.date /\ p.kind = "tx" /\ q.kind = "block"}
        \cup {q \in FirstPositions : q.date > p.date}

\* The positions that can follow p: the next file of the same walk, the
\* first file of the transactions walk of the same date after its blocks
\* walk, or the first file of a walk of a later date (a walk over a
\* directory with no parquet file loads nothing).
WalkNext(p) ==
    {[p EXCEPT !.idx = p.idx + 1]}
        \cup {q \in FirstPositions : q.date = p.date /\ p.kind = "block" /\ q.kind = "tx"}
        \cup {q \in FirstPositions : q.date > p.date}

\* filepath.Walk calls the callback for the next file after the callback
\* returned nil for the current one (and main goes on to the next walk or
\* date after a walk returned nil). From here on cfg, status and store are
\* those of that file: never loaded, or loaded whole by an earlier run.
NextFile ==
    /\ pc \in {"done", "skipped"}
    /\ filesLeft > 0
    /\ filesLeft' = filesLeft - 1
    /\ pc' = "load"
    /\ at' \in WalkNext(at)
    /\ visited' = Append(visited, at')
    /\ cfg' \in {c \in RunConfigs : c.kind = at'.kind}
    /\ \E loaded \in BOOLEAN :
          IF loaded
          THEN /\ status' = WholeFile([NumRows |-> cfg'.N, LastRow |-> cfg'.N])
               /\ store' = FullStore(cfg')
          ELSE status' = NoFile /\ store' = EmptyStore
    /\ FreshMemory
    /\ UNCHANGED <<onProgress, dirExists, tmpFile, download, config, dirFiles, picked>>

\* ------------------------------------------------------------ download
\* What no step of the download changes.
loadState == <<cfg, status, store, fileStatus, batchCount, startRow, reader, buffers,
               totalRows, numRows, stmts, retry, err, hist, onProgress, filesLeft,
               dirExists, tmpFile, handles, walked, config>>

\* The two prefixes of a date, in the order DownloadBTC takes them.
DataTypes == <<"blocks", "transactions">>
FileNames == {"a", "b"}
\* An object of a listing: the base name of its key and whether the key
\* ends in ".snappy.parquet".
Objects == [name : FileNames, parquet : BOOLEAN]
Listings(max) == UNION {[1..k -> Objects] : k \in 0..max}
\* A local file: its directory, its name and where its bytes come from
\* ("remote": written by a download of the object; "stale": anything else).
LocalFile(dir, name, body) == [dir |-> dir, name |-> name, body |-> body]
DownloadRunning == {"dlMkdir", "dlList", "dlGet", "dlCreate", "dlCopy", "dlClose",
                    "dlRename", "dlCleanup"}
DownloadEnded == {"dlIdle", "dlDone", "dlFailed", "dlKilled"}

\* The object of the listing the loop is at.
DirAt == DataTypes[dlIdx.dir]
ObjectAt == remote[DirAt][dlIdx.i]
NextObject == [dlIdx EXCEPT !.i = dlIdx.i + 1]

\* A stat that finds no file.
StatNever(files, dir, name) == FALSE

\* _, err := os.Stat(localPath); err == nil
StatOk(files, dir, name) == \E f \in files : f.dir = dir /\ f.name = name

\* What a temporary file holds: the object's bytes once io.Copy returned
\* nil, a part of them before.
TmpBody(cur) == IF cur = "whole" THEN "remote" ELSE "partial"

\* os.Rename(tmpPath, localPath): the target's old content, if any, is
\* replaced.
Rename(files, dir, name, body) ==
    {f \in files : ~(f.dir = dir /\ f.name = name)} \cup {LocalFile(dir, name, body)}

\* DownloadBTC up to the first call of downloadBTCFiles.
DownloadBTC ==
    /\ pc \in DownloadEnded
    /\ lastRun' = CASE pc = "dlDone" -> "ok"
                     [] pc = "dlIdle" -> "none"
                     [] OTHER -> "failed"
    /\ localAtStart' = localFiles
    /\ fetched' = <<>>
    /\ dlIdx' = [dir |-> 1, i |-> 1]
    /\ \E ok \in BOOLEAN : pc' = IF ok THEN "dlMkdir" ELSE "dlFailed"
    /\ UNCHANGED <<remote, localFiles, dlTmp, dryRun, loadState>>

\* os.MkdirAll(localDir)
DownloadMkdirAll ==
    /\ pc = "dlMkdir"
    /\ \E ok \in BOOLEAN : pc' = IF ok THEN "dlList" ELSE "dlFailed"
    /\ UNCHANGED <<download, loadState>>

\* One turn of the loops over the pages and their objects: the listing
\* fails, or it is exhausted (the next prefix, or the end), or the object
\* is passed over (no parquet key, a local file, a dry run), or it is
\* downloaded.
DownloadNext ==
    /\ pc = "dlList"
    /\ \E listOk \in BOOLEAN :
         IF ~listOk THEN pc' = "dlFailed" /\ dlIdx' = dlIdx
         ELSE IF dlIdx.i > Len(remote[DirAt])
         THEN IF dlIdx.dir < Len(DataTypes)
              THEN pc' = "dlMkdir" /\ dlIdx' = [dir |-> dlIdx.dir + 1, i |-> 1]
              ELSE pc' = "dlDone" /\ dlIdx' = dlIdx
         ELSE IF \/ ~ObjectAt.parquet
                 \/ StatOk(localFiles, DirAt, ObjectAt.name)
                 \/ dryRun
         THEN pc' = "dlList" /\ dlIdx' = NextObject
         ELSE pc' = "dlGet" /\ dlIdx' = dlIdx
    /\ UNCHANGED <<remote, localFiles, dlTmp, dryRun, fetched, localAtStart, lastRun,
                   loadState>>

\* downloadFile: s3Client.GetObject
DownloadGetObject ==
    /\ pc = "dlGet"
    /\ \E ok \in BOOLEAN :
         IF ok
         THEN /\ fetched' = Append(fetched, [dir |-> DirAt, name |-> ObjectAt.name])
              /\ pc' = "dlCreate"
         ELSE fetched' = fetched /\ pc' = "dlFailed"
    /\ UNCHANGED <<remote, localFiles, dlTmp, dlIdx, dryRun, localAtStart, lastRun,
                   loadState>>

\* A downloadFile that creates the file it copies into at the target path.
DownloadCreateInPlace ==
    /\ pc = "dlCreate"
    /\ \E ok \in BOOLEAN :
         IF ok
         THEN /\ localFiles' = Rename(localFiles, DirAt, ObjectAt.name, "partial")
              /\ dlTmp' = [dlTmp EXCEPT !.cur = "part"]
              /\ pc' = "dlCopy"
         ELSE UNCHANGED <<localFiles, dlTmp>> /\ pc' = "dlFailed"
    /\ UNCHANGED <<remote, dlIdx, dryRun, fetched, localAtStart, lastRun, loadState>>

\* downloadFile: os.CreateTemp(targetDir, base + ".tmp.*")
DownloadCreateTemp ==
    /\ pc = "dlCreate"
    /\ \E ok \in BOOLEAN :
         IF ok
         THEN /\ dlTmp' = [dlTmp EXCEPT !.cur = "part"]
              /\ pc' = "dlCopy"
         ELSE dlTmp' = dlTmp /\ pc' = "dlFailed"
    /\ UNCHANGED <<remote, localFiles, dlIdx, dryRun, fetched, localAtStart, lastRun,
                   loadState>>

\* downloadFile: io.Copy(tmpFile, result.Body)
DownloadCopy ==
    /\ pc = "dlCopy"
    /\ \E ok \in BOOLEAN :
         IF ok
         THEN /\ dlTmp' = [dlTmp EXCEPT !.cur = "whole"]
              /\ pc' = "dlClose"
         ELSE dlTmp' = dlTmp /\ pc' = "dlCleanup"
    /\ UNCHANGED <<remote, localFiles, dlIdx, dryRun, fetched, localAtStart, lastRun,
                   loadState>>

\* downloadFile: tmpFile.Close()
DownloadClose ==
    /\ pc = "dlClose"
    /\ \E ok \in BOOLEAN : pc' = IF ok THEN "dlRename" ELSE "dlCleanup"
    /\ UNCHANGED <<download, loadState>>

\* downloadFile: os.Rename(tmpPath, localPath); after it the deferred
\* cleanup finds no temporary file and the loop goes on.
DownloadRename ==
    /\ pc = "dlRename"
    /\ \E ok \in BOOLEAN :
         IF ok
         THEN /\ localFiles' = Rename(localFiles, DirAt, ObjectAt.name,
                                      TmpBody(dlTmp.cur))
              /\ dlTmp' = [dlTmp EXCEPT !.cur = "none"]
              /\ dlIdx' = NextObject
              /\ pc' = "dlList"
         ELSE UNCHANGED <<localFiles, dlTmp, dlIdx>> /\ pc' = "dlCleanup"
    /\ UNCHANGED <<remote, dryRun, fetched, localAtStart, lastRun, loadState>>

\* downloadFile's deferred cleanup on a failure: os.Remove(tmpPath), whose
\* error is dropped.
DownloadCleanup ==
    /\ pc = "dlCleanup"
    /\ \E removed \in BOOLEAN :
         dlTmp' = IF removed THEN [dlTmp EXCEPT !.cur = "none"]
                  ELSE LeftBehind(dlTmp, DirAt, ObjectAt.name)
    /\ pc' = "dlFailed"
    /\ UNCHANGED <<remote, localFiles, dlIdx, dryRun, fetched, localAtStart, lastRun,
                   loadState>>

\* The process is killed during a download: its temporary file stays.
DownloadCrash ==
    /\ pc \in DownloadRunning
    /\ pc' = "dlKilled"
    /\ dlTmp' = IF dlTmp.cur = "none" THEN dlTmp
                ELSE LeftBehind(dlTmp, DirAt, ObjectAt.name)
    /\ UNCHANGED <<remote, localFiles, dlIdx, dryRun, fetched, localAtStart, lastRun,
                   loadState>>

\* ------------------------------------------------------ child extraction
\* The transactions of a chunk as collectTransactionData sees them: the
\* hash, the date string (one that time.Parse accepts, one that it
\* rejects) and the two arrays, whose elements stand for the scalar fields
\* of an input or output.
Hashes == {"h1", "h2"}
DateStrings == {"2009-01-03", "bad"}
ChildArrays == UNION {[1..k -> {"fields"}] : k \in 0..MaxKids}
Transactions == [Hash : Hashes, Date : DateStrings, Inputs : ChildArrays,
                 Outputs : ChildArrays]
Chunks == UNION {[1..k -> Transactions] : k \in 0..MaxChunk}

\* time.Parse("2006-01-02", tx.Date), the zero time on an error.
ParseDate(d) == IF d = "bad" THEN "0001-01-01" ELSE d

\* An index that counts from one.
RowIndexFromOne(i) == i

\* int64(i) of `for i, input := range tx.Inputs`, for the i-th element
\* of the array counted from one as TLA+ counts.
RowIndex(i) == i - 1

ChildRow(tx, i, fields) ==
    [recordDate |-> ParseDate(tx.Date), transactionHash |-> tx.Hash,
     index |-> RowIndex(i), fields |-> fields]

\* The inner loops: the rows of one transaction's array appended in order.
RECURSIVE AppendChildren(_, _, _, _)
AppendChildren(all, tx, array, i) ==
    IF i > Len(array) THEN all
    ELSE AppendChildren(Append(all, ChildRow(tx, i, array[i])), tx, array, i + 1)

\* collectTransactionData(transactions, allInputs, allOutputs)
RECURSIVE collectTransactionData(_, _, _)
collectTransactionData(transactions, allInputs, allOutputs) ==
    IF transactions = <<>> THEN <<allInputs, allOutputs>>
    ELSE LET tx == Head(transactions) IN
         collectTransactionData(Tail(transactions),
                                AppendChildren(allInputs, tx, tx.Inputs, 1),
                                AppendChildren(allOutputs, tx, tx.Outputs, 1))

\* The loader's call of collectTransactionData on the chunk just read.
Collect ==
    /\ pc = "collect"
    /\ LET r == collectTransactionData(pending, pendingInputs, pendingOutputs) IN
         pendingInputs' = r[1] /\ pendingOutputs' = r[2]
    /\ pc' = "collected"
    /\ UNCHANGED <<cfg, status, store, fileStatus, batchCount, startRow, reader,
                   pending, totalRows, numRows, stmts, retry, err, hist, fixed,
                   handles>>

\* -------------------------------------------------------------- config
\* The four batch size keys of the config file and of the environment.
BatchKeys == {"block", "transaction", "input", "output"}

\* What a source says of a key: nothing ("unset"), a value strconv.Atoi
\* rejects ("bad", the empty string included), or an integer.
Unset == [kind |-> "unset", val |-> 0]
Settings ==
    {Unset, [kind |-> "bad", val |-> 0]}
        \cup {[kind |-> "int", val |-> v] : v \in 0..MaxConfigured}

\* parseInt(v, def) and getEnvInt(key, def): def unless the value parses.
parseInt(v, def) == IF v.kind = "int" THEN v.val ELSE def

\* applyKeyValue for a key of the file: a key that the file lacks leaves
\* the field alone.
applyKeyValue(v, cur) == IF v.kind = "unset" THEN cur ELSE parseInt(v, cur)

\* if isSet(KEY) { field = getEnvInt(KEY, field) }
getEnvInt(v, cur) == IF v.kind = "unset" THEN cur ELSE parseInt(v, cur)

\* The value a field of value 0 gets at the end of LoadFromPath.
DefaultOf(key) ==
    CASE key = "transaction" -> DefaultTransactionBatchSize
      [] key = "block" -> DefaultBlockBatchSize
      [] key = "input" -> DefaultInputBatchSize
      [] OTHER -> DefaultOutputBatchSize

\* One batch size of the Config that LoadFromPath returns: the zero value,
\* then the file, then the environment, then the default for a zero.
BatchSizeOf(key, in) ==
    LET v == getEnvInt(in.env[key], applyKeyValue(in.file[key], 0))
    IN IF v = 0 THEN DefaultOf(key) ELSE v

\* LoadFromPath: it fails without a TiDB host or user.
LoadFromPath ==
    /\ pc = "confIdle"
    /\ IF confIn.tidb
       THEN /\ conf' = [k \in BatchKeys |-> BatchSizeOf(k, confIn)]
            /\ pc' = "confLoaded"
       ELSE conf' = conf /\ pc' = "confFailed"
    /\ UNCHANGED <<cfg, status, store, fileStatus, batchCount, startRow, reader,
                   buffers, totalRows, numRows, stmts, retry, err, hist, onProgress,
                   filesLeft, dirExists, tmpFile, handles, walked, download, confIn>>

\* ----------------------------------------------------------- directory
\* One directory <OutDir>/btc/<type>/<date>: DownloadBTC puts the parquet
\* files and its temporary files there, the walk of main selects files of
\* it and SaveStatus writes next to each selected file. A file name is the
\* sequence of its parts between the dots: <<"a", "parquet">> is a.parquet.
Parts == {"a", "parquet"}
Names(max) == UNION {[1..k -> Parts] : k \in 1..max}

\* What os.CreateTemp puts for the "*" of its pattern: decimal digits.
Randoms == {"1617"}

\* filepath.Ext: the suffix from the last dot on, empty without a dot.
Ext(name) == IF Len(name) > 1 THEN <<name[Len(name)]>> ELSE <<>>

\* A walk that takes every file.
SelectsAll(name) == TRUE

\* The walk's callback goes on with a path whose extension is ".parquet".
Selects(name) == Ext(name) = <<"parquet">>

\* The names the walk takes for parquet files.
SourceNames == {m \in Names(MaxParts) : Selects(m)}

\* One status file for the directory.
GetStatusPathPerDir(p) == <<"status", "json">>

\* parquetFilePath + ".status.json"
GetStatusPathForFile(p) == p \o <<"status", "json">>

\* statusPath + ".tmp"
TmpPath(statusPath) == statusPath \o <<"tmp">>

\* os.CreateTemp(targetDir, filepath.Base(localPath) + ".tmp.*")
CreateTempName(base, r) == base \o <<"tmp", r>>

\* A file of the directory: its name, what wrote it ("download": a parquet
\* file; "CreateTemp": a temporary file of downloadFile; "SaveStatus": a
\* status file or its temporary file) and the text it holds.
DirFile(name, by, text) == [name |-> name, by |-> by, text |-> text]
Present(files, name) == \E f \in files : f.name = name
FileAt(files, name) ==
    IF Present(files, name) THEN (CHOOSE f \in files : f.name = name).text ELSE NoFile
Put(files, name, by, text) ==
    {f \in files : f.name # name} \cup {DirFile(name, by, text)}
Remove(files, name) == {f \in files : f.name # name}
ParquetFiles(files) == {f \in files : f.by = "download"}
TempFiles(files) == {f \in files : f.by = "CreateTemp"}

\* The file the walk's callback is at, and its status path.
PickedPath == picked[Len(picked)]
StatusPathAt == GetStatusPathForFile(PickedPath)

\* The Status values the driver saves for a file of one row.
DirStatuses == {[NumRows |-> 1, LastRow |-> 0], [NumRows |-> 1, LastRow |-> 1]}

\* What no step in the directory changes.
aside == <<cfg, status, batchCount, startRow, reader, buffers, totalRows, numRows,
           stmts, retry, err, hist, onProgress, filesLeft, dirExists, tmpFile,
           handles, at, visited, download, config>>

\* downloadFile up to its os.CreateTemp, for an object whose target the
\* os.Stat of downloadBTCFiles did not find; one download at a time.
DirCreateTemp ==
    /\ pc = "dirIdle"
    /\ TempFiles(dirFiles) = {}
    /\ \E t \in SourceNames, r \in Randoms :
          /\ ~Present(dirFiles, t)
          /\ ~Present(dirFiles, CreateTempName(t, r))
          /\ dirFiles' = Put(dirFiles, CreateTempName(t, r), "CreateTemp", PartFile)
    /\ UNCHANGED <<pc, picked, store, fileStatus, aside>>

\* The os.Remove of a temporary file, by the deferred cleanup of a
\* download that failed or by hand; a killed download leaves the file.
DirRemoveTemp ==
    /\ pc \in {"dirIdle", "dirLoad"}
    /\ \E f \in TempFiles(dirFiles) : dirFiles' = Remove(dirFiles, f.name)
    /\ UNCHANGED <<pc, picked, store, fileStatus, aside>>

\* filepath.Walk calls the callback for a file of the directory, which
\* goes on when the extension is right: the file is loaded from here on.
DirPick ==
    /\ pc = "dirIdle"
    /\ \E f \in dirFiles :
          /\ Selects(f.name)
          /\ f.name \notin Range(picked)
          /\ picked' = Append(picked, f.name)
    /\ pc' = "dirLoad"
    /\ store' = EmptyStore
    /\ UNCHANGED <<dirFiles, fileStatus, aside>>

\* The loader writes rows of the file: it is given no status path and
\* touches no file of the directory.
DirLoaderWrite ==
    /\ pc \in {"dirLoad", "dirCallback"}
    /\ store' = [store EXCEPT !.parent = {0}]
    /\ pc' = "dirCallback"
    /\ UNCHANGED <<dirFiles, picked, fileStatus, aside>>

\* SaveStatus(statusPath, fileStatus) from the callback or after the
\* loader: os.WriteFile of the temporary file.
DirSaveWrite ==
    /\ pc = "dirCallback"
    /\ fileStatus' \in DirStatuses
    /\ \E ok \in BOOLEAN :
          IF ok
          THEN /\ dirFiles' = Put(dirFiles, TmpPath(StatusPathAt), "SaveStatus",
                                  WholeFile(fileStatus'))
               /\ pc' = "dirRename"
          ELSE /\ dirFiles' = Put(dirFiles, TmpPath(StatusPathAt), "SaveStatus", PartFile)
               /\ pc' = "dirCallback"
    /\ UNCHANGED <<picked, store, aside>>

\* os.Rename(tmpPath, statusPath).
DirSaveRename ==
    /\ pc = "dirRename"
    /\ \E ok \in BOOLEAN :
          IF ok
          THEN dirFiles' = Put(Remove(dirFiles, TmpPath(StatusPathAt)), StatusPathAt,
                               "SaveStatus", FileAt(dirFiles, TmpPath(StatusPathAt)))
          ELSE dirFiles' = dirFiles
    /\ pc' = "dirCallback"
    /\ UNCHANGED <<picked, store, fileStatus, aside>>

\* The callback returns, or the process is killed: the walk goes on, in
\* this run or the next.
DirFileEnds ==
    /\ pc \in {"dirLoad", "dirCallback", "dirRename"}
    /\ pc' = "dirIdle"
    /\ fileStatus' = ZeroStatus
    /\ UNCHANGED <<dirFiles, picked, store, aside>>

DirSteps ==
    \/ DirCreateTemp
    \/ DirRemoveTemp
    \/ DirPick
    \/ DirLoaderWrite
    \/ DirSaveWrite
    \/ DirSaveRename
    \/ DirFileEnds

\* ------------------------------------------------------ specifications
LoaderNext ==
    \/ LoaderOpen
    \/ Prepare
    \/ Read
    \/ BatchParent
    \/ BatchInput
    \/ BatchOutput
    \/ Progress
    \/ DirectParent
    \/ DirectInput
    \/ DirectOutput
    \/ FinalProgress
    \/ LoaderReturn
    \/ DriverFinish

Next ==
    \/ SyncStart
    \/ Crash
    \/ DriverLoadStatus
    \/ LoaderNext

\* A fresh machine: no status file, empty tables, the command not started.
Init ==
    /\ cfg \in SmallConfigs \cup LongConfigs
    /\ status = NoFile
    /\ store = EmptyStore
    /\ pc = "idle"
    /\ fileStatus = ZeroStatus
    /\ batchCount = 0
    /\ startRow = 0
    /\ pos = 0
    /\ n = 0
    /\ eof = FALSE
    /\ pending = <<>>
    /\ pendingInputs = <<>>
    /\ pendingOutputs = <<>>
    /\ totalRows = 0
    /\ numRows = 0
    /\ stmts = {}
    /\ retry = IdleRetry
    /\ err = NoErr
    /\ cbLog = <<>>
    /\ wlog = <<>>
    /\ rlog = <<>>
    /\ fullAtStart = FALSE
    /\ saveLog = <<>>
    /\ onProgress = "driver"
    /\ filesLeft = 0
    /\ dirExists = TRUE
    /\ tmpFile = NoFile
    /\ handles = {}
    /\ NoWalk
    /\ NoDownload
    /\ NoConfig

\* The whole program on one file: runs of the sync command, a kill at any
\* point, and runs that resume.
Spec == Init /\ [][Next]_vars

\* One loader invocation from any start cursor S < N, as the driver calls
\* it after loading the status {N, S} that an earlier, complete load of
\* rows 0..S-1 saved.
LoaderInit ==
    /\ cfg \in SmallConfigs \cup LongConfigs \cup ScenarioConfigs \cup WideConfigs
    /\ startRow \in StartRows(cfg)
    /\ status = IF startRow > 0 THEN WholeFile([NumRows |-> cfg.N, LastRow |-> startRow])
                ELSE NoFile
    /\ store = PriorStore(cfg, startRow)
    /\ pc = "open"
    /\ fileStatus = [NumRows |-> IF startRow > 0 THEN cfg.N ELSE 0, LastRow |-> startRow]
    /\ batchCount = 0
    /\ pos = 0
    /\ n = 0
    /\ eof = FALSE
    /\ pending = <<>>
    /\ pendingInputs = <<>>
    /\ pendingOutputs = <<>>
    /\ totalRows = 0
    /\ numRows = 0
    /\ stmts = {}
    /\ retry = IdleRetry
    /\ err = NoErr
    /\ cbLog = <<>>
    /\ wlog = <<>>
    /\ rlog = <<>>
    /\ fullAtStart = FALSE
    /\ saveLog = <<>>
    /\ onProgress \in {"driver", "nil"}
    /\ filesLeft = 0
    /\ dirExists = TRUE
    /\ tmpFile = NoFile
    /\ handles = {}
    /\ NoWalk
    /\ NoDownload
    /\ NoConfig

SpecLoader == LoaderInit /\ [][LoaderNext]_vars

\* The loader call as it runs: one goroutine, whose next statement is
\* executed as long as there is one; every call it makes (Read, Exec, the
\* sleep of a retry, the callback) returns. The driver's call, with one
\* batch size for both kinds of children.
FairInit == LoaderInit /\ onProgress = "driver" /\ cfg.Bi = cfg.Bo

SpecLoaderFair == FairInit /\ [][LoaderNext]_vars /\ WF_vars(LoaderNext)

\* One run of the sync command over the files of its walks, on a fresh
\* machine: the first file and filesLeft later ones.
RunInit ==
    /\ cfg \in RunConfigs
    /\ status = NoFile
    /\ store = EmptyStore
    /\ pc = "load"
    /\ fileStatus = ZeroStatus
    /\ batchCount = 0
    /\ startRow = 0
    /\ pos = 0
    /\ n = 0
    /\ eof = FALSE
    /\ pending = <<>>
    /\ pendingInputs = <<>>
    /\ pendingOutputs = <<>>
    /\ totalRows = 0
    /\ numRows = 0
    /\ stmts = {}
    /\ retry = IdleRetry
    /\ err = NoErr
    /\ cbLog = <<>>
    /\ wlog = <<>>
    /\ rlog = <<>>
    /\ fullAtStart = FALSE
    /\ saveLog = <<>>
    /\ onProgress = "driver"
    /\ filesLeft \in 0..MaxLaterFiles
    /\ dirExists = TRUE
    /\ tmpFile = NoFile
    /\ handles = {}
    /\ at \in {p \in FirstPositions : p.kind = cfg.kind}
    /\ visited = <<at>>
    /\ NoListing
    /\ NoDownload
    /\ NoConfig

RunNext ==
    \/ DriverLoadStatus
    \/ LoaderNext
    \/ NextFile

SpecRun == RunInit /\ [][RunNext]_vars

\* The download of one date, run any number of times against one listing
\* and a local directory that holds any files at the start.
DownloadInit ==
    /\ cfg \in {BlockFile(1, 1)}
    /\ status = NoFile
    /\ store = EmptyStore
    /\ pc = "dlIdle"
    /\ fileStatus = ZeroStatus
    /\ batchCount = 0
    /\ startRow = 0
    /\ pos = 0
    /\ n = 0
    /\ eof = FALSE
    /\ pending = <<>>
    /\ pendingInputs = <<>>
    /\ pendingOutputs = <<>>
    /\ totalRows = 0
    /\ numRows = 0
    /\ stmts = {}
    /\ retry = IdleRetry
    /\ err = NoErr
    /\ cbLog = <<>>
    /\ wlog = <<>>
    /\ rlog = <<>>
    /\ fullAtStart = FALSE
    /\ saveLog = <<>>
    /\ onProgress = "driver"
    /\ filesLeft = 0
    /\ dirExists = TRUE
    /\ tmpFile = NoFile
    /\ handles = {}
    /\ NoWalk
    /\ NoConfig
    /\ remote \in [blocks : Listings(MaxBlockObjects),
                    transactions : Listings(MaxTxObjects)]
    /\ localFiles \in SUBSET {LocalFile(d, f, "stale") :
                                d \in Range(DataTypes), f \in FileNames}
    /\ dlTmp = NoTmp
    /\ dlIdx = [dir |-> 1, i |-> 1]
    /\ dryRun \in BOOLEAN
    /\ fetched = <<>>
    /\ localAtStart = localFiles
    /\ lastRun = "none"

DownloadSteps ==
    \/ DownloadBTC
    \/ DownloadMkdirAll
    \/ DownloadNext
    \/ DownloadGetObject
    \/ DownloadCreateTemp
    \/ DownloadCopy
    \/ DownloadClose
    \/ DownloadRename
    \/ DownloadCleanup
    \/ DownloadCrash

SpecDownload == DownloadInit /\ [][DownloadSteps]_vars

\* The loading of the configuration from any file and environment.
ConfigInit ==
    /\ cfg \in {BlockFile(1, 1)}
    /\ status = NoFile
    /\ store = EmptyStore
    /\ pc = "confIdle"
    /\ fileStatus = ZeroStatus
    /\ batchCount = 0
    /\ startRow = 0
    /\ pos = 0
    /\ n = 0
    /\ eof = FALSE
    /\ pending = <<>>
    /\ pendingInputs = <<>>
    /\ pendingOutputs = <<>>
    /\ totalRows = 0
    /\ numRows = 0
    /\ stmts = {}
    /\ retry = IdleRetry
    /\ err = NoErr
    /\ cbLog = <<>>
    /\ wlog = <<>>
    /\ rlog = <<>>
    /\ fullAtStart = FALSE
    /\ saveLog = <<>>
    /\ onProgress = "driver"
    /\ filesLeft = 0
    /\ dirExists = TRUE
    /\ tmpFile = NoFile
    /\ handles = {}
    /\ NoWalk
    /\ NoDownload
    /\ confIn \in [file : [BatchKeys -> Settings], env : [BatchKeys -> Settings],
                    tidb : BOOLEAN]
    /\ conf = <<>>

SpecConfig == ConfigInit /\ [][LoadFromPath]_vars

\* collectTransactionData on any chunk, with buffers that are empty or hold
\* a row of an earlier chunk.
EarlierRow ==
    [recordDate |-> "2009-01-03", transactionHash |-> "h0", index |-> 0,
     fields |-> "fields"]

CollectInit ==
    /\ cfg \in {BlockFile(1, 1)}
    /\ status = NoFile
    /\ store = EmptyStore
    /\ pc = "collect"
    /\ fileStatus = ZeroStatus
    /\ batchCount = 0
    /\ startRow = 0
    /\ pos = 0
    /\ n = 0
    /\ eof = FALSE
    /\ pending \in Chunks
    /\ pendingInputs \in {<<>>, <<EarlierRow>>}
    /\ pendingOutputs \in {<<>>, <<EarlierRow>>}
    /\ totalRows = 0
    /\ numRows = 0
    /\ stmts = {}
    /\ retry = IdleRetry
    /\ err = NoErr
    /\ cbLog = <<>>
    /\ wlog = <<>>
    /\ rlog = <<>>
    /\ fullAtStart = FALSE
    /\ saveLog = <<>>
    /\ onProgress = "driver"
    /\ filesLeft = 0
    /\ dirExists = TRUE
    /\ tmpFile = NoFile
    /\ handles = {}
    /\ NoWalk
    /\ NoDownload
    /\ NoConfig

SpecCollect == CollectInit /\ [][Collect]_vars

\* A date's directory that holds one or two downloaded parquet files,
\* before a walk.
DirInit ==
    /\ cfg \in {BlockFile(1, 1)}
    /\ status = NoFile
    /\ store = EmptyStore
    /\ pc = "dirIdle"
    /\ fileStatus = ZeroStatus
    /\ batchCount = 0
    /\ startRow = 0
    /\ pos = 0
    /\ n = 0
    /\ eof = FALSE
    /\ pending = <<>>
    /\ pendingInputs = <<>>
    /\ pendingOutputs = <<>>
    /\ totalRows = 0
    /\ numRows = 0
    /\ stmts = {}
    /\ retry = IdleRetry
    /\ err = NoErr
    /\ cbLog = <<>>
    /\ wlog = <<>>
    /\ rlog = <<>>
    /\ fullAtStart = FALSE
    /\ saveLog = <<>>
    /\ onProgress = "driver"
    /\ filesLeft = 0
    /\ dirExists = TRUE
    /\ tmpFile = NoFile
    /\ handles = {}
    /\ at = [date |-> 1, kind |-> "block", idx |-> 1]
    /\ visited = <<>>
    /\ \E p, q \in SourceNames :
          dirFiles = {DirFile(m, "download", WholeFile(ZeroStatus)) : m \in {p, q}}
    /\ picked = <<>>
    /\ NoDownload
    /\ NoConfig

SpecDir == DirInit /\ [][DirSteps]_vars

\* The status store under a caller that loads a key and saves any Status
\* under it, over every status file a caller may find.
StoreInit ==
    /\ cfg = BlockFile(1, 1)
    /\ dirExists \in BOOLEAN
    /\ status \in {NoFile} \cup
                  (IF dirExists THEN {WholeFile(s) : s \in StatusValues} ELSE {})
    /\ store = EmptyStore
    /\ pc = "idle"
    /\ fileStatus = ZeroStatus
    /\ batchCount = 0
    /\ startRow = 0
    /\ pos = 0
    /\ n = 0
    /\ eof = FALSE
    /\ pending = <<>>
    /\ pendingInputs = <<>>
    /\ pendingOutputs = <<>>
    /\ totalRows = 0
    /\ numRows = 0
    /\ stmts = {}
    /\ retry = IdleRetry
    /\ err = NoErr
    /\ cbLog = <<>>
    /\ wlog = <<>>
    /\ rlog = <<>>
    /\ fullAtStart = FALSE
    /\ saveLog = <<>>
    /\ onProgress = "driver"
    /\ filesLeft = 0
    /\ tmpFile = NoFile
    /\ handles = {}
    /\ NoWalk
    /\ NoDownload
    /\ NoConfig

StoreNext ==
    \/ SyncStart
    \/ Crash
    \/ DriverLoadStatus
    \/ SaveStatusBegin
    \/ SaveMkdirAll
    \/ SaveCreateTmp
    \/ SaveWriteTmp
    \/ SaveRename

SpecStore == StoreInit /\ [][StoreNext]_vars

\* ------------------------------------------------------------ properties
\* The number of parent rows, counted from row 0, present in a table.
CommittedPrefix(rows) ==
    CHOOSE k \in 0..cfg.N : (0..(k - 1)) \subseteq rows /\ (k = cfg.N \/ k \notin rows)

ParentWrites(path) ==
    SelectSeq(wlog, LAMBDA w : w.kind = "parent" /\ w.path = path)

\* The loader has returned success.
ReturnedOk == pc \in {"returned", "done"} /\ err = NoErr

\* C1: a transaction file whose load resumed from a saved cursor C,
\* 0 < C < total, and finished holds every transaction, input and output row
\* of the file in the store, as after one uninterrupted load.
C1_TxResumption ==
    (cfg.kind = "tx" /\ pc = "done" /\ startRow > 0 /\ startRow < cfg.N)
        => store = FullStore(cfg)

\* C2: a block file whose load finished, resumed from a saved cursor or not,
\* holds every block row of the file in the store; a file the driver skips
\* as complete does too.
C2_BlockResumption ==
    (cfg.kind = "block" /\ pc \in {"done", "skipped"}) => store = FullStore(cfg)

C2_Witness ==
    /\ cfg.kind = "block"
    /\ pc = "done"
    /\ startRow > 0
    /\ startRow < cfg.N
    /\ store = FullStore(cfg)

\* C3: the cursor of the saved status is at most the number of parent rows,
\* counted from row 0, whose write has succeeded.
C3_SavedCursorCommitted ==
    status.exists => status.LastRow <= CommittedPrefix(store.parent)

\* C4: every cursor passed to the progress callback and the cursor of the
\* saved status are at most the file's total row count.
C4_CursorAtMostTotal ==
    /\ \A i \in DOMAIN cbLog : cbLog[i].row <= cbLog[i].numRows
    /\ status.exists => status.LastRow <= status.NumRows

\* C5: within one loader invocation the cursors passed to the progress
\* callback never decrease and the total passed is always the same.
C5_CallbackMonotone ==
    \A i, j \in DOMAIN cbLog :
        i <= j => cbLog[i].row <= cbLog[j].row /\ cbLog[i].numRows = cbLog[j].numRows

C5_Witness ==
    /\ Len(cbLog) >= 3
    /\ cbLog[1].row < cbLog[3].row
    /\ startRow > 0

\* C6: a load from cursor 0 of a file that an earlier load had ingested
\* whole leaves the store as that load left it, and no write of it fails on
\* a key conflict.
C6_Reingest ==
    (fullAtStart /\ startRow = 0) =>
        /\ store = FullStore(cfg)
        /\ err.cause # "duplicate"
        /\ \A i \in DOMAIN retry.results : retry.results[i] # "duplicate"

C6_Witness ==
    /\ fullAtStart
    /\ startRow = 0
    /\ pc = "done"
    /\ Len(ParentWrites("stmt")) + Len(ParentWrites("direct")) > 0
    /\ cfg.kind = "tx"
    /\ cfg.kin > 0

\* C7: a load from cursor 0 that returned success wrote floor(N/B) parent
\* batches of B rows with the prepared statement, and one direct parent
\* batch of N mod B rows when N mod B > 0, none otherwise.
C7_BatchBoundary ==
    (ReturnedOk /\ startRow = 0) =>
        LET pw == ParentWrites("stmt")
            dw == ParentWrites("direct")
        IN
        /\ Len(pw) = cfg.N \div cfg.B
        /\ \A i \in DOMAIN pw : Len(pw[i].rows) = cfg.B
        /\ IF cfg.N % cfg.B > 0
           THEN Len(dw) = 1 /\ Len(dw[1].rows) = cfg.N % cfg.B
           ELSE Len(dw) = 0

\* C8: a load that returned success with no write failure invoked the
\* callback ceil((N-S)/B) times, with cursors S+B, S+2B, ..., N against N.
ExpectedCallbacks ==
    LET left == cfg.N - startRow
        cnt == (left + cfg.B - 1) \div cfg.B
    IN [i \in 1..cnt |-> [row |-> Min(startRow + i * cfg.B, cfg.N), numRows |-> cfg.N]]

C8_ProgressSequence == ReturnedOk => cbLog = ExpectedCallbacks

\* C9: a loader called with start cursor S > 0 seeks the reader to row S
\* before the first read and before any write, reads and writes no row
\* below S, and reports a first cursor greater than S (200 for the prior
\* state {total 250, cursor 100} with batches of 100).
C9_ResumeOrdering ==
    startRow > 0 =>
        /\ (pc \notin {"load", "open"} /\ ~(pc \in Ended) /\ err.op # "open")
              => rlog # <<>> /\ rlog[1] = [op |-> "seek", at |-> startRow, n |-> 0]
        /\ \A i \in DOMAIN rlog : rlog[i].op = "read" => i > 1 /\ rlog[i].at >= startRow
        /\ \A i \in DOMAIN wlog : \A j \in DOMAIN wlog[i].rows :
              IF wlog[i].kind = "parent" THEN wlog[i].rows[j] >= startRow
              ELSE wlog[i].rows[j][1] >= startRow
        /\ cbLog # <<>> => cbLog[1].row > startRow
        /\ (cbLog # <<>> /\ cfg.N = 250 /\ cfg.B = 100 /\ startRow = 100)
              => cbLog[1].row = 200

C9_Witness ==
    /\ cfg.N = 250
    /\ cfg.B = 100
    /\ startRow = 100
    /\ ReturnedOk
    /\ Len(cbLog) >= 2
    /\ cbLog[1] = [row |-> 200, numRows |-> 250]

\* C10: the retry executor calls the wrapped operation at least once and at
\* most 3 times, returns at the first success, fails only after 3 failed
\* calls with an error naming the operation, 3 attempts and the last
\* failure, retries every error value alike, and every statement
\* preparation and every write of a loader is a call made by it.
FailedCalls(rs) == \A i \in DOMAIN rs : rs[i] # "ok"

C10_Frame ==
    /\ Len(retry.results) <= 3
    /\ retry.state = "running" =>
          /\ Len(retry.results) \in 1..2
          /\ FailedCalls(retry.results)
    /\ (retry.state # "idle" /\ Len(retry.results) < 3
            /\ retry.results[Len(retry.results)] # "ok") => retry.state = "running"
    /\ retry.state = "ok" =>
          /\ Len(retry.results) \in 1..3
          /\ retry.results[Len(retry.results)] = "ok"
          /\ FailedCalls(SubSeq(retry.results, 1, Len(retry.results) - 1))
          /\ err = NoErr
    /\ retry.state = "failed" =>
          /\ Len(retry.results) = 3
          /\ FailedCalls(retry.results)
          /\ pc = "return"
          /\ err = [op |-> retry.op, attempts |-> 3, cause |-> retry.results[3]]

C10_Through ==
    (store' # store \/ ~(stmts' \subseteq stmts)) =>
        /\ retry'.state = "ok"
        /\ retry'.results = Append(Frame(retry'.op).results, "ok")

C10_RetryBound == [](C10_Frame) /\ [][C10_Through]_vars

C10_Witness ==
    /\ retry.state = "failed"
    /\ retry.op = "direct insert"
    /\ retry.results = <<"permanent", "transient", "permanent">>
    /\ err.attempts = 3

\* C11: before attempt k+1 (k = 1, 2) the executor waits k times the base
\* delay and it does not wait after the third failed attempt; a write that
\* fails twice and then succeeds has waited 1x and 2x the delay, is reported
\* as successful, and moves the loader (cursor, buffers, next step) as a
\* write that succeeds at once does: the failed attempts change nothing.
FailedCount(r) == IF r.state = "ok" THEN Len(r.results) - 1 ELSE Len(r.results)

C11_Waits ==
    /\ retry.waits = [i \in 1..Min(FailedCount(retry), 2) |-> i]
    /\ (retry.state = "ok" /\ Len(retry.results) = 3) =>
          retry.waits = <<1, 2>> /\ err = NoErr

C11_Cursor ==
    /\ retry'.state = "running" =>
          UNCHANGED <<persist, pc, driver, reader, buffers, totalRows, numRows, stmts,
                      err, hist, fixed>>
    /\ (retry'.state = "ok" /\ retry'.op \in {"batch insert", "direct insert"}) =>
          /\ err' = NoErr
          /\ Len(wlog') = Len(wlog) + 1
          /\ totalRows' = totalRows +
                (IF pc = "batchParent" /\ cfg.kind = "block" THEN cfg.B
                 ELSE IF pc = "directParent" THEN Len(pending)
                 ELSE 0)

C11_LinearBackoff == [](C11_Waits) /\ [][C11_Cursor]_vars

C11_Witness ==
    /\ cfg.kind = "block"
    /\ retry.op = "batch insert"
    /\ retry.state = "ok"
    /\ Len(retry.results) = 3
    /\ retry.waits = <<1, 2>>
    /\ pc = "progress"
    /\ totalRows = startRow + cfg.B
    /\ err = NoErr

\* C12: when the state the driver loaded for a file is complete (total > 0
\* and cursor >= total) the driver calls no loader, writes nothing to the
\* store and leaves the persisted state as it is; otherwise it calls the
\* loader, once, with the loaded cursor as start cursor.
C12_Loaded(s) ==
    \/ s = ZeroStatus
    \/ status.exists /\ s = [NumRows |-> status.NumRows, LastRow |-> status.LastRow]

C12_Step ==
    (pc = "load" /\ pc' \notin {"load", "idle"}) =>
        /\ C12_Loaded(fileStatus')
        /\ UNCHANGED <<status, store, wlog, rlog, cbLog, saveLog>>
        /\ IF fileStatus'.NumRows > 0 /\ fileStatus'.LastRow >= fileStatus'.NumRows
           THEN pc' = "skipped"
           ELSE pc' = "open" /\ startRow' = fileStatus'.LastRow

C12_Once == pc' = "open" => pc \in {"load", "open"}

C12_Skipped ==
    pc = "skipped" =>
        /\ wlog = <<>> /\ rlog = <<>> /\ cbLog = <<>> /\ saveLog = <<>>
        /\ stmts = {}
        /\ status = WholeFile(fileStatus)
        /\ fileStatus.NumRows > 0
        /\ fileStatus.LastRow >= fileStatus.NumRows

C12_DriverSkipResume == [](C12_Skipped) /\ [][C12_Step /\ C12_Once]_vars

C12_Witness ==
    /\ pc = "skipped"
    /\ status = WholeFile([NumRows |-> cfg.N, LastRow |-> cfg.N])
    /\ store = FullStore(cfg)

\* C13: during a load the driver saves the state on every 10th progress
\* callback and on no other, and once the file's processing has returned,
\* with success or with an error, the last save is one of the latest
\* in-memory cursor made on that return.
CallbackSaves == SelectSeq(saveLog, LAMBDA s : s.at = "callback")

C13_Periodic ==
    /\ Len(CallbackSaves) = batchCount \div 10
    /\ \A i \in DOMAIN CallbackSaves :
          /\ CallbackSaves[i].count = 10 * i
          /\ CallbackSaves[i].cursor = cbLog[10 * i].row

C13_OnReturn ==
    pc \in {"done", "exited"} =>
        /\ saveLog # <<>>
        /\ saveLog[Len(saveLog)].at = "final"
        /\ saveLog[Len(saveLog)].cursor = fileStatus.LastRow

C13_SaveCadence == C13_Periodic /\ C13_OnReturn

\* C14: a run over several files whose load of one file ended in a terminal
\* error goes on to the next file: the process does not end while a file of
\* the run is still to be visited.
C14_FailureIsolation == pc = "exited" => filesLeft = 0

\* C15: Save writes the state to the temporary file and renames it over the
\* state file: after every step of a save, a crash between two steps
\* included, a Load of the key succeeds and returns the state it returned
\* before the step or, in full, the state being saved, never a partial
\* record; and a Save past its first step has created the directory.
C15_Load(st) == LoadStatus(st, TRUE)

C15_Whole == C15_Load(status).ok /\ (pc \in Saving \ {"saveMkdir"} => dirExists)

C15_Step ==
    /\ C15_Load(status').ok
    /\ C15_Load(status').status \in
          {C15_Load(status).status} \cup (IF pc \in Saving THEN {fileStatus} ELSE {})
    /\ status' # status =>
          /\ pc = "saveRename"
          /\ tmpFile = WholeFile(fileStatus)
          /\ status' = WholeFile(fileStatus)

C15_AtomicSave == [](C15_Whole) /\ [][C15_Step]_vars

C15_Witness ==
    /\ pc = "idle"
    /\ tmpFile = PartFile
    /\ status.exists
    /\ status.LastRow = MaxCursor
    /\ dirExists

\* C16: over every sequence of saves, within a run and across killed and
\* resumed runs, the persisted cursor of a file never decreases, and a
\* state record once written is never deleted.
C16_Step == status.exists => (status'.exists /\ status'.LastRow >= status.LastRow)

C16_PersistedMonotone == [][C16_Step]_vars

\* C17: a loader called with start cursor S > 0 whose seek to row S fails
\* has attempted the seek once and returns an error, having made no read,
\* prepared no statement (no attempt of the retry executor), written
\* nothing to the store and called no progress callback.
C17_SeekFailure ==
    err.op = "seek" =>
        /\ startRow > 0
        /\ rlog = <<[op |-> "seek", at |-> startRow, n |-> 0]>>
        /\ pc \in {"return", "returned", "exited"}
        /\ retry = IdleRetry
        /\ stmts = {}
        /\ wlog = <<>>
        /\ store = PriorStore(cfg, startRow)
        /\ cbLog = <<>>
        /\ saveLog = <<>>

C17_Witness ==
    /\ err.op = "seek"
    /\ pc = "returned"
    /\ cfg.kind = "tx"
    /\ startRow > 0
    /\ store = PriorStore(cfg, startRow)

\* C18: at every progress report, whether the callback returns an error,
\* returns nil or is not supplied, the loader does not take an error from
\* it and goes on the same way: its next step, cursor, reader, buffers and
\* store writes are those the state before the report determines.
C18_NextPc ==
    IF pc = "finalProgress" THEN "return"
    ELSE IF cfg.kind = "block" THEN "read"
    ELSE IF LoopEnds(n, eof) THEN TxRemPc(pending, pendingInputs, pendingOutputs)
    ELSE "read"

C18_Step ==
    pc \in {"progress", "finalProgress"} =>
        /\ err' = NoErr
        /\ pc' = C18_NextPc
        /\ totalRows' = IF pc = "progress" /\ cfg.kind = "tx" THEN totalRows + n
                        ELSE totalRows
        /\ UNCHANGED <<store, reader, buffers, numRows, stmts, wlog, rlog>>

C18_CallbackAdvisory == [][C18_Step]_vars

C18_Witness ==
    /\ onProgress = "driver"
    /\ saveLog # <<>>
    /\ ~saveLog[1].ok
    /\ Len(cbLog) > saveInterval
    /\ ReturnedOk
    /\ store = FullStore(cfg)

\* C19: a status load that fails leaves the driver with an empty state and
\* the file is loaded from row 0; a save that fails, periodic or final,
\* changes nothing of the load (no error, no store or cursor change, the
\* next step as after a save that succeeds); and the process exits only on
\* an error of the loader, never on one of the status store.
LoaderOps ==
    {"open", "seek", "read", "prepare block statement", "prepare transaction statement",
     "prepare input statement", "prepare output statement", "batch insert",
     "direct insert"}

C19_LoadFailed ==
    /\ pc = "load"
    /\ pc' \notin {"load", "idle"}
    /\ status.exists
    /\ status.LastRow > 0
    /\ fileStatus' = ZeroStatus

C19_SaveFailed == Len(saveLog') > Len(saveLog) /\ ~saveLog'[Len(saveLog')].ok

C19_Step ==
    /\ C19_LoadFailed => (pc' = "open" /\ startRow' = 0 /\ err' = NoErr)
    /\ C19_SaveFailed =>
          /\ err' = NoErr
          /\ UNCHANGED <<store, wlog, reader, buffers, stmts>>
          /\ pc' = IF pc = "returned" THEN "done" ELSE C18_NextPc

C19_NoAbort == pc = "exited" => err.op \in LoaderOps

C19_StateFailure == [](C19_NoAbort) /\ [][C19_Step]_vars

C19_Witness ==
    /\ cfg.kind = "block"
    /\ cfg.N <= MaxRows
    /\ pc = "done"
    /\ status.exists
    /\ startRow = 0
    /\ saveLog # <<>>
    /\ ~saveLog[Len(saveLog)].ok
    /\ store = FullStore(cfg)

\* C20: IsComplete(state) is true exactly when total > 0 and cursor >=
\* total: false for the zero-value state and whenever total = 0, whatever
\* the cursor; the driver skips a file exactly on that condition of the
\* state it loaded.
C20_Value ==
    /\ IsComplete(fileStatus) <=>
          (fileStatus.NumRows > 0 /\ fileStatus.LastRow >= fileStatus.NumRows)
    /\ fileStatus = ZeroStatus => ~IsComplete(fileStatus)
    /\ fileStatus.NumRows = 0 => ~IsComplete(fileStatus)

C20_Decision ==
    (pc = "load" /\ pc' \in {"skipped", "open"}) =>
        ((pc' = "skipped") <=>
            (fileStatus'.NumRows > 0 /\ fileStatus'.LastRow >= fileStatus'.NumRows))

C20_Completion == [](C20_Value) /\ [][C20_Decision]_vars

C20_Witness ==
    /\ pc = "open"
    /\ fileStatus.NumRows = 0
    /\ fileStatus.LastRow = MaxCursor
    /\ status = WholeFile(fileStatus)
    /\ ~IsComplete(fileStatus)

\* C21: a Load of a key with no persisted state returns the zero-value
\* state and no error, and a Load after a Save of the key that succeeded
\* returns the cursor and the total that were saved.
C21_NoState ==
    ~status.exists =>
        \A readOk \in BOOLEAN :
            LoadStatus(status, readOk) = [status |-> ZeroStatus, ok |-> TRUE]

C21_SaveThenLoad ==
    (pc = "saveRename" /\ tmpFile' = NoFile /\ pc' = "open") =>
        LoadStatus(status', TRUE) = [status |-> fileStatus, ok |-> TRUE]

C21_Loaded ==
    (pc = "load" /\ pc' \in {"open", "skipped"}) =>
        \/ fileStatus' = LoadStatus(status, TRUE).status
        \/ status.exists /\ fileStatus' = ZeroStatus

C21_LoadSave == [](C21_NoState) /\ [][C21_SaveThenLoad /\ C21_Loaded]_vars

C21_Witness ==
    /\ pc = "skipped"
    /\ dirExists
    /\ tmpFile = NoFile
    /\ status = WholeFile(fileStatus)
    /\ fileStatus = [NumRows |-> 1, LastRow |-> MaxCursor]

\* C22: a transaction file of a single parent with K inputs, loaded with
\* input batch size Bi, gets floor(K/Bi) prepared input writes of Bi rows
\* each and, when K mod Bi > 0, one direct input write of K mod Bi rows,
\* whatever the parent batch size and the output batch size; the same for
\* its outputs with the output batch size.
Writes(kind, path) == SelectSeq(wlog, LAMBDA w : w.kind = kind /\ w.path = path)

C22_Flushes(kind, K, Bk) ==
    /\ Len(Writes(kind, "stmt")) = K \div Bk
    /\ \A i \in DOMAIN Writes(kind, "stmt") : Len(Writes(kind, "stmt")[i].rows) = Bk
    /\ IF K % Bk > 0
       THEN /\ Len(Writes(kind, "direct")) = 1
            /\ Len(Writes(kind, "direct")[1].rows) = K % Bk
       ELSE Len(Writes(kind, "direct")) = 0

C22_ChildDecoupling ==
    (ReturnedOk /\ cfg.kind = "tx" /\ cfg.N = 1 /\ startRow = 0) =>
        /\ C22_Flushes("input", cfg.kin, cfg.Bi)
        /\ C22_Flushes("output", cfg.kout, cfg.Bo)

C22_Witness ==
    /\ ReturnedOk
    /\ cfg.kind = "tx"
    /\ cfg.N = 1
    /\ cfg.B = MaxBatch
    /\ cfg.kin = MaxKids + 1
    /\ cfg.Bi = MaxChildBatch
    /\ Len(Writes("input", "stmt")) = 1
    /\ Len(Writes("input", "direct")) = 1
    /\ Len(Writes("output", "stmt")) = MaxKids + 1

\* C23: files are loaded one at a time: the driver moves to the next file
\* only after the current file's load has returned (or was skipped), with
\* every statement, the source file and the reader closed; the file being
\* loaded is the last one visited; the files are visited in walk order
\* (dates in order, in a date every block file before any transaction file,
\* in a directory by rank), and each by the loader of its kind.
WalkBefore(p, q) ==
    \/ p.date < q.date
    \/ p.date = q.date /\ p.kind = "block" /\ q.kind = "tx"
    \/ p.date = q.date /\ p.kind = q.kind /\ p.idx < q.idx

C23_Order ==
    /\ visited # <<>>
    /\ visited[Len(visited)] = at
    /\ cfg.kind = at.kind
    /\ \A i, j \in DOMAIN visited : i < j => WalkBefore(visited[i], visited[j])
    /\ \A i, j \in DOMAIN visited :
          (visited[i].date = visited[j].date /\ visited[i].kind = "block"
              /\ visited[j].kind = "tx") => i < j

C23_Step ==
    visited' # visited =>
        /\ pc \in {"done", "skipped"}
        /\ stmts = {}
        /\ handles = {}
        /\ retry = IdleRetry
        /\ pc' = "load"
        /\ visited' = Append(visited, at')

C23_Sequential == [](C23_Order) /\ [][C23_Step]_vars

C23_Witness ==
    /\ Len(visited) = 3
    /\ visited[1].kind = "block"
    /\ visited[2].kind = "tx"
    /\ visited[2].date = visited[1].date
    /\ visited[3].date > visited[1].date
    /\ pc = "done"
    /\ wlog # <<>>

C25_BatchDefaults ==
    (pc = "confLoaded" /\ \A k \in BatchKeys :
                            confIn.file[k] = Unset /\ confIn.env[k] = Unset) =>
        /\ conf["block"] = 100
        /\ conf["transaction"] = 500
        /\ conf["input"] = 1000
        /\ conf["output"] = 1000

\* C26: a loader prepares one statement per entity kind of its file, each
\* once, before the first read and the first write, and keeps them until it
\* returns; every write through a prepared statement uses the statement of
\* its kind and carries exactly that kind's configured batch size of rows.
BatchSizeFor(kind) ==
    IF kind = "parent" THEN cfg.B ELSE IF kind = "input" THEN cfg.Bi ELSE cfg.Bo

InLoop == {"read", "batchParent", "batchInput", "batchOutput", "progress",
           "directParent", "directInput", "directOutput", "finalProgress"}

C26_Sized ==
    /\ \A i \in DOMAIN wlog :
          wlog[i].path = "stmt" => Len(wlog[i].rows) = BatchSizeFor(wlog[i].kind)
    /\ stmts \subseteq NeededStmts(cfg.kind)
    /\ pc \in InLoop => stmts = NeededStmts(cfg.kind)
    /\ (wlog # <<>> \/ \E i \in DOMAIN rlog : rlog[i].op = "read")
          => (pc \in InLoop \cup {"return"} => stmts = NeededStmts(cfg.kind))

C26_Step ==
    /\ stmts' # stmts =>
          \/ pc = "return" /\ stmts' = {}
          \/ /\ pc = "prepare"
             /\ wlog = <<>>
             /\ \A i \in DOMAIN rlog : rlog[i].op # "read"
             /\ \E k \in NeededStmts(cfg.kind) \ stmts :
                   /\ stmts' = stmts \cup {k}
                   /\ retry'.op = PrepareLabel(cfg.kind, k)
                   /\ retry'.state = "ok"
    /\ (Len(wlog') > Len(wlog) /\ wlog'[Len(wlog')].path = "stmt") =>
          /\ wlog'[Len(wlog')].kind \in stmts
          /\ stmts' = stmts

C26_PreparedUse == [](C26_Sized) /\ [][C26_Step]_vars

C26_Witness ==
    /\ cfg.kind = "tx"
    /\ pc = "progress"
    /\ stmts = {"parent", "input", "output"}
    /\ Len(Writes("parent", "stmt")) >= 2
    /\ Len(Writes("input", "stmt")) >= 1
    /\ Len(Writes("output", "stmt")) >= 1

\* C27: in the transaction loader, at the end of a chunk's flush step the
\* input buffer holds fewer rows than the input batch size; a read only
\* appends to the buffer; at any time the input batches written through
\* the statement followed by the buffer are the inputs of the parents read
\* so far, in read and array order; and on a successful return the final
\* direct write, made after every statement write, carried the buffer. The
\* same for the outputs.
RECURSIVE ConcatRows(_)
ConcatRows(ws) == IF ws = <<>> THEN <<>> ELSE Head(ws).rows \o ConcatRows(Tail(ws))

ParentsRead == RowSeq(startRow, pos - startRow)

IsPrefix(s, t) == Len(s) <= Len(t) /\ SubSeq(t, 1, Len(s)) = s

C27_Buffer(kind, buf, k, size) ==
    /\ pc \in {"progress", "read", "directParent", "directInput", "directOutput",
               "finalProgress"} => Len(buf) < size
    /\ ConcatRows(Writes(kind, "stmt")) \o buf = CollectChildren(ParentsRead, k)
    /\ Len(Writes(kind, "direct")) <= 1
    /\ \A i, j \in DOMAIN wlog :
          (wlog[i].kind = kind /\ wlog[j].kind = kind /\ wlog[i].path = "direct"
              /\ wlog[j].path = "stmt") => j < i
    /\ \A i \in DOMAIN wlog :
          (wlog[i].kind = kind /\ wlog[i].path = "direct") => wlog[i].rows = buf
    /\ ReturnedOk =>
          /\ pos = cfg.N
          /\ ConcatRows(Writes(kind, "stmt")) \o ConcatRows(Writes(kind, "direct"))
                = CollectChildren(RowSeq(startRow, cfg.N - startRow), k)

C27_Inv ==
    (cfg.kind = "tx" /\ err = NoErr /\ pc \in InLoop \cup {"return", "returned"}) =>
        /\ C27_Buffer("input", pendingInputs, cfg.kin, cfg.Bi)
        /\ C27_Buffer("output", pendingOutputs, cfg.kout, cfg.Bo)

C27_Step ==
    (cfg.kind = "tx" /\ pc \in {"read", "progress"} /\ pc' # "return") =>
        /\ IsPrefix(pendingInputs, pendingInputs')
        /\ IsPrefix(pendingOutputs, pendingOutputs')

C27_ChildBuffers == [](C27_Inv) /\ [][C27_Step]_vars

C27_Witness ==
    /\ ReturnedOk
    /\ cfg.kind = "tx"
    /\ cfg.B = 1
    /\ Len(Writes("input", "direct")) = 1
    /\ \E i \in DOMAIN wlog :
          /\ wlog[i].kind = "input"
          /\ wlog[i].path = "stmt"
          /\ wlog[i].rows[1][1] # wlog[i].rows[Len(wlog[i].rows)][1]

\* C28: collectTransactionData keeps what the buffers held and emits, for
\* every transaction of the chunk and every position of its input array,
\* in that order, exactly one input row with the parent's hash, the parent's date as the
\* parent's own row carries it, and the 0-based position as index, and no
\* other row; so with distinct parent hashes no two emitted rows share
\* (hash, index). The same for the outputs.
Emitted(before, after) == SubSeq(after, Len(before) + 1, Len(after))

RECURSIVE CountChildren(_, _)
CountChildren(txs, outputs) ==
    IF txs = <<>> THEN 0
    ELSE Len(IF outputs THEN Head(txs).Outputs ELSE Head(txs).Inputs)
            + CountChildren(Tail(txs), outputs)

C28_Emitted(txs, before, after, outputs) ==
    LET new == Emitted(before, after)
        arrayOf(tx) == IF outputs THEN tx.Outputs ELSE tx.Inputs
        distinct == \A s, t \in DOMAIN txs : s # t => txs[s].Hash # txs[t].Hash
    IN
    /\ IsPrefix(before, after)
    /\ Len(new) = CountChildren(txs, outputs)
    /\ \A t \in DOMAIN txs : \A a \in DOMAIN arrayOf(txs[t]) :
          LET j == CountChildren(SubSeq(txs, 1, t - 1), outputs) + a IN
             /\ j \in DOMAIN new
             /\ new[j].transactionHash = txs[t].Hash
             /\ new[j].index = a - 1
             /\ new[j].recordDate = ParseDate(txs[t].Date)
             /\ new[j].fields = arrayOf(txs[t])[a]
    /\ distinct =>
          \A i, j \in DOMAIN new :
             (new[i].transactionHash = new[j].transactionHash
                 /\ new[i].index = new[j].index) => i = j

C28_Step ==
    pc = "collect" =>
        /\ C28_Emitted(pending, pendingInputs, pendingInputs', FALSE)
        /\ C28_Emitted(pending, pendingOutputs, pendingOutputs', TRUE)

C28_ChildExtraction == [][C28_Step]_vars

C28_Witness ==
    /\ pc = "collected"
    /\ Len(pending) = 2
    /\ pending[1].Hash # pending[2].Hash
    /\ Len(pending[1].Inputs) = MaxKids
    /\ Len(pending[2].Inputs) = MaxKids
    /\ Len(pending[2].Outputs) = 1
    /\ pending[2].Date = "bad"
    /\ pendingInputs[1] = EarlierRow
    /\ Len(pendingInputs) = 1 + 2 * MaxKids

\* C29: a direct write happens only after the read loop has ended (the last
\* read was short or signalled the end, and no read and no statement write
\* follows a direct write), at most once per entity kind, with exactly the
\* rows that kind's buffer holds, never for an empty buffer; and a loader
\* that returns without error has made the direct write of every kind whose
\* buffer holds rows.
DirectWrites == SelectSeq(wlog, LAMBDA w : w.path = "direct")

C29_Kind(kind, buf) ==
    /\ Len(Writes(kind, "direct")) <= 1
    /\ \A i \in DOMAIN wlog :
          (wlog[i].kind = kind /\ wlog[i].path = "direct")
             => wlog[i].rows = buf /\ buf # <<>>
    /\ ReturnedOk => Len(Writes(kind, "direct")) = IF buf # <<>> THEN 1 ELSE 0

C29_Inv ==
    /\ C29_Kind("parent", pending)
    /\ C29_Kind("input", pendingInputs)
    /\ C29_Kind("output", pendingOutputs)
    /\ \A i, j \in DOMAIN wlog :
          (i < j /\ wlog[i].path = "direct") => wlog[j].path = "direct"
    /\ DirectWrites # <<>> =>
          /\ LoopEnds(n, eof)
          /\ rlog # <<>>
          /\ rlog[Len(rlog)].op = "read"
          /\ rlog[Len(rlog)].n = n
          /\ pc \notin {"open", "prepare", "read", "batchParent", "batchInput",
                         "batchOutput", "progress"}

C29_Step == DirectWrites # <<>> => rlog' = rlog /\ IsPrefix(wlog, wlog')

C29_RemainderFlush == [](C29_Inv) /\ [][C29_Step]_vars

C29_Witness ==
    /\ ReturnedOk
    /\ cfg.kind = "tx"
    /\ Len(Writes("parent", "stmt")) >= 1
    /\ Len(Writes("parent", "direct")) = 1
    /\ Len(Writes("input", "direct")) = 1
    /\ Len(Writes("output", "direct")) = 0
    /\ Len(Writes("output", "stmt")) >= 1

\* C30: a loader returns only through its deferred Close calls: when it has
\* returned, on success or on any error, no statement it prepared, nor the
\* source file, nor the reader is open; while it runs its loop, all of them
\* are open, and nothing is closed before the return.
C30_Closed ==
    /\ pc \in {"returned", "done", "exited"} => stmts = {} /\ handles = {}
    /\ pc \in InLoop => stmts = NeededStmts(cfg.kind) /\ handles = {"file", "reader"}
    /\ pc = "prepare" => handles = {"file", "reader"}

C30_Step ==
    /\ pc' = "returned" => pc = "return" /\ stmts' = {} /\ handles' = {}
    /\ (pc # "return" /\ pc' = "return") => stmts' = stmts /\ handles \subseteq handles'

C30_StatementRelease == [](C30_Closed) /\ [][C30_Step]_vars

C30_Witness ==
    /\ pc = "returned"
    /\ cfg.kind = "tx"
    /\ err.op = "prepare output statement"
    /\ err.attempts = maxRetries
    /\ stmts = {}
    /\ handles = {}

\* C31: every local file at a target path is a file that was there before
\* or a complete copy of its object, at every point of a download, a failed
\* or killed one included; a dry run fetches nothing and creates no file;
\* and a downloadFile that fails leaves no file at its target path and has
\* removed its temporary file.
C31_Whole ==
    /\ \A f \in localFiles : f.body # "partial"
    /\ \A f \in localFiles : f.body = "remote" =>
          \E i \in DOMAIN remote[f.dir] :
             remote[f.dir][i].name = f.name /\ remote[f.dir][i].parquet
    /\ dryRun => localFiles = localAtStart /\ dlTmp = NoTmp /\ fetched = <<>>
    /\ pc \in {"dlCopy", "dlClose", "dlRename", "dlCleanup"}
          => ~StatOk(localFiles, DirAt, ObjectAt.name)

InDownloadFile == {"dlGet", "dlCreate", "dlCopy", "dlClose", "dlRename", "dlCleanup"}

C31_FailedClean ==
    (pc \in InDownloadFile /\ pc' = "dlFailed") =>
        /\ ~StatOk(localFiles', DirAt, ObjectAt.name)
        /\ dlTmp'.cur = "none"
        /\ dlTmp.cur # "none" => pc = "dlCleanup"

\* The claim as it stands: the temporary file of a failed downloadFile is
\* gone.
C31_Removed ==
    (pc \in InDownloadFile /\ pc' = "dlFailed") => dlTmp'.left = dlTmp.left

\* What the code does: the deferred cleanup calls os.Remove on every
\* failure after os.CreateTemp and drops its error, so the temporary file
\* is gone unless that os.Remove failed.
C31_RemoveTried ==
    (pc \in InDownloadFile /\ pc' = "dlFailed") =>
        \/ dlTmp'.left = dlTmp.left
        \/ /\ pc = "dlCleanup"
           /\ dlTmp'.left = dlTmp.left \cup {[dir |-> DirAt, name |-> ObjectAt.name]}

WritePcs == {"batchParent", "batchInput", "batchOutput",
             "directParent", "directInput", "directOutput"}

\* The rows of the write at hand.
RowsAtHand ==
    CASE pc = "batchParent" -> Range(StmtBatch(pending, cfg.B))
      [] pc = "directParent" -> Range(pending)
      [] pc = "batchInput" -> Range(StmtBatch(pendingInputs, cfg.Bi))
      [] pc = "directInput" -> Range(pendingInputs)
      [] pc = "batchOutput" -> Range(StmtBatch(pendingOutputs, cfg.Bo))
      [] pc = "directOutput" -> Range(pendingOutputs)
      [] OTHER -> {}

\* The parent rows that the rows of the write at hand belong to.
ParentsAtHand ==
    IF pc \in {"batchParent", "directParent"} THEN RowsAtHand
    ELSE {x[1] : x \in RowsAtHand}

WriteExhausted == pc \in WritePcs /\ retry'.state = "failed"

C32_Abort ==
    /\ WriteExhausted =>
          /\ pc' = "return"
          /\ err' # NoErr
          /\ err'.attempts = maxRetries
          /\ Len(retry'.results) = maxRetries
          /\ UNCHANGED <<store, rlog, wlog, cbLog, pos>>
    /\ (pc \in {"return", "returned"} /\ err # NoErr) =>
          /\ UNCHANGED <<store, rlog, wlog, cbLog, pos, err>>
          /\ pc' \in {"returned", "exited"}

C32_Uncounted ==
    WriteExhausted =>
        \A i \in DOMAIN cbLog : \A r \in ParentsAtHand : cbLog[i].row <= r

C32_UncountedBlock == cfg.kind = "block" => C32_Uncounted

C32_AbortOnExhaustedWrite == [][C32_Abort /\ C32_Uncounted]_vars

C32_AbortHolds == [][C32_Abort /\ C32_UncountedBlock]_vars

\* C33: when a loader has returned success for a file of total > 0 rows, the
\* last cursor the callback received is the file's total row count, and the
\* status that the driver's final save has written has cursor = total and
\* is complete.
C33_Reported ==
    (ReturnedOk /\ onProgress = "driver" /\ cfg.N > 0) =>
        /\ cbLog # <<>>
        /\ cbLog[Len(cbLog)].row = cfg.N
        /\ cbLog[Len(cbLog)].numRows = cfg.N
        /\ fileStatus.LastRow = cfg.N

C33_Saved ==
    (pc = "done" /\ err = NoErr /\ saveLog # <<>> /\ saveLog[Len(saveLog)].ok) =>
        /\ status.exists
        /\ status.LastRow = cfg.N
        /\ IsComplete(status)

C33_CompletionOnSuccess == C33_Reported /\ C33_Saved

C33_BlockCompletion == cfg.kind = "block" => C33_CompletionOnSuccess

\* C34: while no write of the invocation has failed for good, the parent
\* rows of the successful writes, prepared and direct together and in
\* order, are rows that were read, each row once; on a successful return
\* they are all the rows read.
C34_Submitted == ConcatRows(SelectSeq(wlog, LAMBDA w : w.kind = "parent"))

C34_SingleSubmission ==
    err = NoErr =>
        /\ IsPrefix(C34_Submitted, ParentsRead)
        /\ \A r \in Range(ParentsRead) :
              ~(\E i \in DOMAIN wlog : wlog[i].kind = "parent" /\ wlog[i].path = "stmt"
                                       /\ r \in Range(wlog[i].rows))
              \/ ~(\E j \in DOMAIN wlog : wlog[j].kind = "parent" /\ wlog[j].path = "direct"
                                          /\ r \in Range(wlog[j].rows))
        /\ ReturnedOk => C34_Submitted = ParentsRead

C34_BlockSubmission == cfg.kind = "block" => C34_SingleSubmission

\* C35: in the transaction loader, every input and output row in the store
\* belongs to a transaction row that is in the store: the write of the
\* parent succeeded before the write of the child.
C35_ParentBeforeChild ==
    cfg.kind = "tx" =>
        /\ \A x \in store.input : x[1] \in store.parent
        /\ \A x \in store.output : x[1] \in store.parent

\* The same for the children of full chunks, whose parents the loop writes.
C35_FullChunks ==
    (cfg.kind = "tx" /\ cfg.N % cfg.B = 0 /\ startRow % cfg.B = 0) => C35_ParentBeforeChild

\* C36: in a load none of whose saves has failed, the callbacks received
\* since the load's last save (since its start when it has not saved yet)
\* are at most saveInterval - 1 whenever a callback has returned, and the
\* parent rows the run has written at or above the persisted cursor are at
\* most those of saveInterval batches, so that a crash at any point leaves
\* a persisted cursor that far behind at most.
C36_SinceSave == batchCount - saveInterval * Len(CallbackSaves)

C36_Persisted == IF status.exists THEN status.LastRow ELSE 0

C36_Lag == Cardinality({r \in Range(C34_Submitted) : r >= C36_Persisted})

C36_BoundedSaveLag ==
    (\A i \in DOMAIN saveLog : saveLog[i].ok) =>
        /\ C36_SinceSave >= 0
        /\ C36_SinceSave <= saveInterval - 1
        /\ C36_Lag <= saveInterval * cfg.B

C36_Witness ==
    /\ pc = "progress"
    /\ batchCount = saveInterval
    /\ Len(CallbackSaves) = 1
    /\ CallbackSaves[1].ok
    /\ status.exists
    /\ status.LastRow = cbLog[saveInterval].row
    /\ C36_Lag = 1

\* C37: every loader call returns, with success or with an error, whatever
\* the file, the start cursor and the outcomes of the writes: a round of
\* the read loop that is followed by another read has consumed a full chunk
\* of rows that were still to be read, a round of a flush loop shortens its
\* buffer, and no invocation of the retry executor calls its operation more
\* than maxRetries times.
Returned == pc \in {"returned", "done", "exited"}

C37_Round ==
    /\ (pc = "read" /\ pc' # "return") =>
          /\ pos' = pos + n'
          /\ pos' <= cfg.N
          /\ (cfg.kind = "block" /\ pc' = "batchParent") => (n' = cfg.B /\ n' > 0 /\ ~eof')
    /\ (pc = "progress" /\ pc' = "read") => (n = cfg.B /\ n > 0 /\ ~eof)
    /\ (pc = "batchInput" /\ retry'.state = "ok") => Len(pendingInputs') < Len(pendingInputs)
    /\ (pc = "batchOutput" /\ retry'.state = "ok") => Len(pendingOutputs') < Len(pendingOutputs)
    /\ Len(retry'.results) <= maxRetries
    /\ (retry.state = "running" /\ retry'.state = "running") =>
          Len(retry'.results) = Len(retry.results) + 1

C37_Termination == <>Returned /\ [][C37_Round]_vars

C37_Witness ==
    /\ pc = "returned"
    /\ err = NoErr
    /\ cfg.kind = "tx"
    /\ startRow > 0
    /\ pos = cfg.N
    /\ Len(rlog) > 1
    /\ \E i \in DOMAIN wlog : wlog[i].kind = "input" /\ wlog[i].path = "stmt"

\* C38: no status file, temporary file of a status file or temporary file
\* of a download is a file the walk selects: its name has another
\* extension than ".parquet" and it is never picked; what the walk picks
\* are parquet files of the directory, and the status path and the
\* temporary path of each are names it does not select.
C38_StateFilesNotIngested ==
    /\ \A f \in dirFiles :
          f.by # "download" => (~Selects(f.name) /\ f.name \notin Range(picked))
    /\ \A i \in DOMAIN picked :
          /\ \E f \in dirFiles : f.name = picked[i] /\ f.by = "download"
          /\ ~Selects(GetStatusPathForFile(picked[i]))
          /\ ~Selects(TmpPath(GetStatusPathForFile(picked[i])))
          /\ \A r \in Randoms : ~Selects(CreateTempName(picked[i], r))

C38_Witness ==
    /\ Len(picked) = 2
    /\ \E f \in dirFiles : f.name = GetStatusPathForFile(picked[1]) /\ f.by = "SaveStatus"
    /\ \E f \in dirFiles : f.name = TmpPath(GetStatusPathForFile(picked[2]))
    /\ TempFiles(dirFiles) # {}

\* C39: two source paths never share a status path; a step of SaveStatus
\* for the file at hand changes no file but that file's status file and
\* its temporary file, so the status every other file would load stays;
\* and a step that is not one of SaveStatus, the loader's included, changes
\* no status file at all.
StatusOf(files, p) == FileAt(files, GetStatusPathForFile(p))

C39_Injective ==
    \A p, q \in SourceNames :
        p # q => /\ GetStatusPathForFile(p) # GetStatusPathForFile(q)
                 /\ TmpPath(GetStatusPathForFile(p)) # TmpPath(GetStatusPathForFile(q))
                 /\ GetStatusPathForFile(p) # TmpPath(GetStatusPathForFile(q))

C39_SaveStep ==
    (pc \in {"dirCallback", "dirRename"} /\ dirFiles' # dirFiles) =>
        /\ \A f \in dirFiles :
              f.name \notin {StatusPathAt, TmpPath(StatusPathAt)} => f \in dirFiles'
        /\ \A f \in dirFiles' :
              f.name \notin {StatusPathAt, TmpPath(StatusPathAt)} => f \in dirFiles
        /\ \A g \in ParquetFiles(dirFiles) :
              g.name # PickedPath =>
                  StatusOf(dirFiles', g.name) = StatusOf(dirFiles, g.name)

C39_OtherStep ==
    (pc \notin {"dirCallback", "dirRename"} \/ store' # store \/ pc' = "dirIdle") =>
        /\ \A g \in ParquetFiles(dirFiles) :
              StatusOf(dirFiles', g.name) = StatusOf(dirFiles, g.name)
        /\ \A f \in dirFiles \cup dirFiles' :
              f.by = "SaveStatus" => f \in dirFiles \cap dirFiles'

C39_StateIsolation == [](C39_Injective) /\ [][C39_SaveStep /\ C39_OtherStep]_vars

C39_Witness ==
    /\ Len(picked) = 2
    /\ pc = "dirCallback"
    /\ StatusOf(dirFiles, picked[1]) = WholeFile([NumRows |-> 1, LastRow |-> 1])
    /\ StatusOf(dirFiles, picked[2]) = WholeFile([NumRows |-> 1, LastRow |-> 0])
    /\ store.parent # {}

\* In the loaders themselves the status file changes only in a step that
\* calls the driver's callback, or in the driver's save after the return.
C39_LoaderHandsOff ==
    status' # status =>
        \/ pc \in {"progress", "finalProgress"} /\ onProgress = "driver"
        \/ pc = "returned"

C39_OnlyThroughCallback == [][C39_LoaderHandsOff]_vars

====
